---- MODULE Spec2Model ----
(***************************************************************************)
(* Model of the filter-folder extension: the folder creation batch of the  *)
(* background worker (createFolders and its port handler; and             *)
(* createMissingFolders, the batch with the stop signal), the              *)
(* reconciliation diff (analyze) and the rule-text sorter (sortRawRules).  *)
(*                                                                         *)
(* Strings that denote folder paths are modelled by their list of          *)
(* '/'-separated segments: "A/B" is <<"A","B">>, the host path "/Inbox/A"  *)
(* is <<"","Inbox","A">> (what split('/') yields) and "" is <<>>.          *)
(***************************************************************************)
EXTENDS Integers, Sequences, FiniteSets, TLC

\* ------------------------------------------------------------------------
\* Bounds of the model
\* ------------------------------------------------------------------------
MaxDepth == 2       \* longest target path, in segments
MaxBatch == 2       \* longest list of target paths in one request
MaxExternal == 1    \* folders created on the host by somebody else
MaxFaults == 1      \* host create calls rejected with another error
MaxRuns == 2        \* create requests handled one after the other
MaxDiffDepth == 1   \* longest path the reconciliation diff compares
MaxRequired == 2    \* longest list of required paths
MaxExisting == 2    \* most folders an analysed account holds
MaxFileRules == 2   \* most rule blocks in the pasted rules text
MaxGenerated == 1   \* most rule blocks generated in the window
MaxSegments == 2    \* longest path of a URI that is encoded or decoded
MaxSelected == 2    \* most senders selected when rules are generated
MaxMessages == 3
MaxLimit == 2
MaxInferRules == 2
MaxScanFolders == 4 \* most folders of an account whose scan is followed
MaxDenied == 1      \* folders whose sub-folder listing is refused
MaxDiscovered == 2  \* most senders a discovery scan returns
MaxOverlap == 2     \* create requests whose runs overlap
MaxRules == 3       \* most rules in the filter text that is analysed

\* Folder names the requests use, and those other clients use
Names == {"A", "B"}
HostNames == {"A", "a", "B"}

\* ------------------------------------------------------------------------
\* Program constants
\* ------------------------------------------------------------------------
INBOX_FOLDER_NAME == "Inbox"
ALREADY_EXISTS == "already exists"
NO_INBOX == "No inbox folder found"
PERMISSION_DENIED == "permission denied"

\* null, for a folder and for a host call
NoFolder == [null |-> TRUE]
NoCall == [null |-> TRUE]

\* new Error(text + arg).message
Message(text, arg) == [text |-> text, arg |-> arg]

\* String.prototype.toLowerCase on one segment
LowerName(n) ==
  CASE n = "A" -> "a"
    [] n = "B" -> "b"
    [] n = "C" -> "c"
    [] n = "Inbox" -> "inbox"
    [] n = "Zzzz" -> "zzzz"
    [] n = "Bob@D" -> "bob@d"
    [] n = "Bob" -> "bob"
    [] n = "j.Bob" -> "j.bob"
    [] n = "Mail" -> "mail"
    [] n = "Example" -> "example"
    [] n = "ME@D" -> "me@d"
    [] n = "COM" -> "com"
    [] n = "Me@D" -> "me@d"
    [] OTHER -> n

\* toLowerCase on a path
Lower(p) == [k \in 1..Len(p) |-> LowerName(p[k])]

\* path.split('/').slice(0, n).join('/')
Prefix(p, n) == SubSeq(p, 1, n)

\* the last element of a list
Last(sq) == sq[Len(sq)]

\* All sequences over S of length lo..hi
SeqsUpTo(S, lo, hi) == UNION {[1..n -> S] : n \in lo..hi}

\* The target paths a request may name
TargetPaths == SeqsUpTo(Names, 1, MaxDepth)
Batches == SeqsUpTo(TargetPaths, 0, MaxBatch)

\* ------------------------------------------------------------------------
\* Host folder store (messenger.accounts / messenger.folders)
\* ------------------------------------------------------------------------
RootPath == <<"", "">>                  \* "/"
InboxPath == <<"", INBOX_FOLDER_NAME>>  \* "/Inbox"

\* path.replace(/^\/+/, '')
RECURSIVE CleanPath(_)
CleanPath(p) ==
  IF p # <<>> /\ Head(p) = "" THEN CleanPath(Tail(p)) ELSE p

\* path of the folder the host makes for `name` under the folder at `parent`
ChildPath(parent, name) ==
  IF parent = RootPath THEN <<"", name>> ELSE Append(parent, name)

\* parent of a host folder
ParentPath(p) ==
  IF Len(p) <= 2 THEN RootPath ELSE SubSeq(p, 1, Len(p) - 1)

\* MailFolder object handed out by the host for the folder at path p
HostNode(p) ==
  [id |-> p,
   name |-> IF p = RootPath THEN "" ELSE p[Len(p)],
   path |-> p,
   type |-> IF p = InboxPath THEN "inbox" ELSE ""]

VARIABLES
  acct,       \* what accounts.get answers: "missing", "rootFolder", "folders"
  host,       \* paths of the folders on the server other than the root
  pc,         \* position of the port handler
  paths,      \* msg.paths of the request being handled
  sortedPaths,
  i,          \* loop index of createFolders (1-based)
  j,          \* loop index of processPath (1-based)
  folderMap,  \* lower-cased clean path -> folder item
  inbox,      \* findInboxFolder(folders), or NoFolder
  scanned,    \* the keys of folderMap when the scan returned
  results,    \* [created, failed]
  events,     \* messages posted on the port, oldest first
  calls,      \* host create calls issued, oldest first
  pending,    \* the host create call awaited, or NoCall
  finished,   \* the requests handled before this one, oldest first
  nExternal, nFaults,
  stopRequested,  \* createMissingFolders: set by the onDisconnect listener
  stoppedAt,      \* the loop index at which the port was disconnected
  requiredPaths,    \* analyze: getUniquePaths(rules)
  existingFolders,  \* analyze: the folders scanAccount returned
  mergeCase,        \* analyze: data.mergeCase
  missing,          \* analyze: the missing paths of the answer
  diffPc,           \* "ready" before analyze answers, "analyzed" after
  renamed,          \* the folder whose letter case was changed, or NoFolder
  pasteInput,   \* the rules text area of the window
  genRulesOut,  \* the generated rules text area
  download,     \* the text handed to downloads.download, or NoText
  sortIn,       \* the argument of the last sortRawRules call
  sortOut,      \* what that call returned
  textPc,       \* "editing" until the rules are downloaded, then "saved"
  fn,           \* the function of RuleEngine or MailClient that is called
  arg,          \* its arguments
  ret,          \* what it returned, once it has
  returned,     \* whether the call has returned
  denied,        \* scanAccount: the folders whose getSubFolders call rejects
  scanFolders,   \* scanAccount: the accumulator `folders`
  scanLeafs,     \* scanAccount: stats.leafs
  outstanding,   \* scanAccount: the folders whose getSubFolders call is awaited
  scanPc,        \* "ready", "scanning" until Promise.all settles, "done"
  scanResult,    \* what scanAccount returned, or NoFolder
  runs           \* the createFolders runs of the port, one per message

\* state of createMissingFolders that createFolders does not have
stopVars == <<stopRequested, stoppedAt>>

\* state of the reconciliation diff
diffVars == <<requiredPaths, existingFolders, mergeCase, missing, diffPc,
              renamed>>

\* state of the rules window
textVars == <<pasteInput, genRulesOut, download, sortIn, sortOut, textPc>>

\* a call of one function of RuleEngine or MailClient
callVars == <<fn, arg, ret, returned>>

\* state of a scanAccount call followed answer by answer
scanVars == <<denied, scanFolders, scanLeafs, outstanding, scanPc, scanResult>>

\* state of createFolders
engineVars == <<acct, host, pc, paths, sortedPaths, i, j, folderMap, inbox,
                scanned, results, events, calls, pending, finished,
                nExternal, nFaults>>

vars == <<acct, host, pc, paths, sortedPaths, i, j, folderMap, inbox, scanned,
          results, events, calls, pending, finished, nExternal, nFaults,
          stopVars, diffVars, textVars, callVars,
          scanVars, runs>>

\* no text: a list no rules text equals
NoText == <<[t |-> "none", v |-> ""]>>

\* the worker handles no create request
EngineIdle ==
  /\ acct = "folders"
  /\ host = {}
  /\ pc = "off"
  /\ paths = <<>>
  /\ sortedPaths = <<>>
  /\ i = 0
  /\ j = 0
  /\ folderMap = <<>>
  /\ inbox = NoFolder
  /\ scanned = {}
  /\ results = [created |-> <<>>, failed |-> <<>>]
  /\ events = <<>>
  /\ calls = <<>>
  /\ pending = NoCall
  /\ finished = <<>>
  /\ nExternal = 0
  /\ nFaults = 0
  /\ stopRequested = FALSE
  /\ stoppedAt = 0

\* no analyze request is handled
DiffIdle ==
  /\ requiredPaths = <<>>
  /\ existingFolders = {}
  /\ mergeCase = FALSE
  /\ missing = <<>>
  /\ diffPc = "off"
  /\ renamed = NoFolder

\* the rules window is not open
TextIdle ==
  /\ pasteInput = <<>>
  /\ genRulesOut = <<>>
  /\ download = NoText
  /\ sortIn = NoText
  /\ sortOut = NoText
  /\ textPc = "off"

\* no scanAccount call is followed
ScanIdle ==
  /\ denied = {}
  /\ scanFolders = <<>>
  /\ scanLeafs = 0
  /\ outstanding = {}
  /\ scanPc = "off"
  /\ scanResult = NoFolder

\* no overlapping createFolders runs are followed
RunsIdle == runs = <<>>

\* no function is called on its own
CallIdle ==
  /\ fn = "none"
  /\ arg = <<>>
  /\ ret = <<>>
  /\ returned = FALSE

\* ------------------------------------------------------------------------
\* MailClient: scanAccount, findInboxFolder, sortPathsByDepth
\* ------------------------------------------------------------------------

\* createFolderItem(folder, depth)
createFolderItem(folder, depth) ==
  [id |-> folder.id,
   name |-> folder.name,
   path |-> folder.path,
   cleanPath |-> CleanPath(folder.path),
   type |-> folder.type,
   depth |-> depth]

\* getRootFolders(account): account.folders, else [account.rootFolder]
getRootFolders(a, h) ==
  CASE a = "rootFolder" -> {RootPath}
    [] a = "folders" -> {p \in h : Len(p) = 2}
    [] OTHER -> {}

\* The folders scanAccount returns (as a set; their order is in ScanOrders)
scanAccount(a, h) ==
  CASE a = "rootFolder" ->
         {createFolderItem(HostNode(RootPath), 0)}
         \cup {createFolderItem(HostNode(p), Len(p) - 1) : p \in h}
    [] a = "folders" ->
         {createFolderItem(HostNode(p), Len(p) - 2) : p \in h}
    [] OTHER -> {}

\* findInboxFolder(folders): first folder of type inbox or named Inbox,
\* else folders[0]; `first` is folders[0], the first root traversed
findInboxFolder(folders, first) ==
  IF folders = {} THEN {NoFolder}
  ELSE LET cand == {f \in folders :
                      f.type = "inbox" \/ f.name = INBOX_FOLDER_NAME}
       IN IF cand # {} THEN cand ELSE {f \in folders : f.path = first}

\* new Map(folders.map(f => [f.cleanPath.toLowerCase(), f])): for a key
\* that several folders share, the map keeps the one scanned last, which
\* depends on the order in which the getSubFolders calls are answered
FolderMaps(folders) ==
  LET keys == {Lower(f.cleanPath) : f \in folders}
      same(k) == {f \in folders : Lower(f.cleanPath) = k}
      clash == {k \in keys : Cardinality(same(k)) > 1}
      pick(w) == [k \in keys |->
                    IF k \in clash THEN w[k] ELSE CHOOSE f \in same(k) : TRUE]
  IN {pick(w) : w \in {v \in [clash -> folders] :
                         \A k \in clash : v[k] \in same(k)}}

\* sortPathsByDepth: a stable sort of a copy by number of segments
RECURSIVE ByDepth(_, _, _)
ByDepth(ps, d, maxd) ==
  IF d > maxd THEN <<>>
  ELSE SelectSeq(ps, LAMBDA p : Len(p) = d) \o ByDepth(ps, d + 1, maxd)

MaxLenOf(ps) ==
  IF ps = <<>> THEN 0
  ELSE CHOOSE n \in {Len(ps[k]) : k \in 1..Len(ps)} :
         \A k \in 1..Len(ps) : Len(ps[k]) <= n

\* sortPathsByDepth ordering the paths of one depth by their first name
RECURSIVE ByDepthThenName(_, _, _)
ByDepthThenName(ps, d, maxd) ==
  IF d > maxd THEN <<>>
  ELSE SelectSeq(ps, LAMBDA p : Len(p) = d /\ p[1] = "A")
       \o SelectSeq(ps, LAMBDA p : Len(p) = d /\ p[1] # "A")
       \o ByDepthThenName(ps, d + 1, maxd)

sortPathsByDepth_ThenName(ps) == ByDepthThenName(ps, 1, MaxLenOf(ps))

\* sortPathsByDepth(paths)
sortPathsByDepth(ps) == ByDepth(ps, 1, MaxLenOf(ps))

\* ------------------------------------------------------------------------
\* Background worker: createFolders and the create-folders port
\* ------------------------------------------------------------------------

\* port.postMessage
Post(ev, msg) == Append(ev, msg)

sendProgress(ev, current, total, path) ==
  Post(ev, [type |-> "progress", current |-> current, total |-> total,
            path |-> path])

\* sendFolderComplete posting MESSAGE_TYPES.COMPLETE
sendFolderComplete_AsComplete(ev, path) ==
  Post(ev, [type |-> "complete", path |-> path])

sendFolderComplete(ev, path) ==
  Post(ev, [type |-> "folderComplete", path |-> path])

\* ERROR_MESSAGES.MISSING_PARENT(path)
MISSING_PARENT(parentPath) == Message("Missing parent: ", parentPath)

\* error.message.includes(ERROR_MESSAGES.ALREADY_EXISTS)
IncludesAlreadyExists(message) ==
  message.text = ALREADY_EXISTS \/ message.arg = <<ALREADY_EXISTS>>

\* handleCreationError without the already-exists test
handleCreationError_NoReclassify(message, path, res) ==
  [res EXCEPT !.failed = Append(@, [path |-> path, error |-> message])]

\* handleCreationError(error, path, results)
handleCreationError(message, path, res) ==
  IF ~IncludesAlreadyExists(message)
  THEN [res EXCEPT !.failed = Append(@, [path |-> path, error |-> message])]
  ELSE [res EXCEPT !.created = Append(@, path)]

\* createAndCache: the map after MailClient.createFolder answered `created`
createAndCache(fm, created) ==
  LET createdPath == CleanPath(created.path)
      key == Lower(createdPath)
      item == [id |-> created.id, name |-> created.name,
               path |-> created.path, type |-> created.type,
               cleanPath |-> createdPath]
  IN [k \in DOMAIN fm \cup {key} |-> IF k = key THEN item ELSE fm[k]]

\* an account without a folder of type inbox in which the root folder A
\* holds a folder that the user named Inbox
NestedInbox == {<<"", "A">>, <<"", "A", INBOX_FOLDER_NAME>>}

Init ==
  /\ ScanIdle
  /\ RunsIdle
  /\ acct \in {"missing", "rootFolder", "folders"}
  /\ host \in {{}, {InboxPath}, NestedInbox}
  /\ pc = "idle"
  /\ paths = <<>>
  /\ sortedPaths = <<>>
  /\ i = 0
  /\ j = 0
  /\ folderMap = <<>>
  /\ inbox = NoFolder
  /\ scanned = {}
  /\ results = [created |-> <<>>, failed |-> <<>>]
  /\ events = <<>>
  /\ calls = <<>>
  /\ pending = NoCall
  /\ finished = <<>>
  /\ nExternal = 0
  /\ nFaults = 0
  /\ stopRequested = FALSE
  /\ stoppedAt = 0
  /\ DiffIdle
  /\ TextIdle
  /\ CallIdle

\* Another client makes a folder on the server.  The worker can observe it
\* only at a point where it awaits the host.
ExternalCreate ==
  /\ pc \in {"idle", "scan", "await", "done"}
  /\ nExternal < MaxExternal
  /\ \E c \in SeqsUpTo(HostNames, 1, MaxDepth) :
       LET p == <<"">> \o c
       IN /\ p \notin host
          /\ (Len(p) = 2 \/ ParentPath(p) \in host)
          /\ host' = host \cup {p}
  /\ nExternal' = nExternal + 1
  /\ UNCHANGED <<scanVars, runs, acct, pc, paths, sortedPaths, i, j, folderMap, inbox, scanned,
                 results, events, calls, pending, finished, nFaults,
                 stopVars, diffVars, callVars, textVars>>

\* port.onMessage listener: createFolders(msg, port) up to its first await
Receive ==
  /\ pc = "idle"
  /\ \E batch \in Batches :
       /\ paths' = batch
       /\ sortedPaths' = sortPathsByDepth(batch)
  /\ results' = [created |-> <<>>, failed |-> <<>>]
  /\ pc' = "scan"
  /\ UNCHANGED <<scanVars, runs, acct, host, i, j, folderMap, inbox, scanned, events, calls, pending,
                 finished, nExternal, nFaults,
                 stopVars, diffVars, callVars, textVars>>

\* The user sends the same list again once the request has been answered
Rerun ==
  /\ pc = "done"
  /\ Len(finished) + 1 < MaxRuns
  /\ finished' = Append(finished, [results |-> results, calls |-> calls,
                                   events |-> events])
  /\ sortedPaths' = sortPathsByDepth(paths)
  /\ results' = [created |-> <<>>, failed |-> <<>>]
  /\ events' = <<>>
  /\ calls' = <<>>
  /\ pc' = "scan"
  /\ UNCHANGED <<scanVars, runs, acct, host, paths, i, j, folderMap, inbox, scanned, pending,
                 nExternal, nFaults,
                 stopVars, diffVars, callVars, textVars>>

\* createFolders: scanAccount answered, with an inbox-equivalent folder
ScanDone ==
  /\ pc = "scan"
  /\ LET folders == scanAccount(acct, host)
     IN /\ folders # {}
        /\ \E first \in getRootFolders(acct, host) :
             inbox' \in findInboxFolder(folders, first)
        /\ folderMap' \in FolderMaps(folders)
        /\ scanned' = {Lower(f.cleanPath) : f \in folders}
  /\ i' = 1
  /\ pc' = "loop"
  /\ UNCHANGED <<scanVars, runs, acct, host, paths, sortedPaths, j, results, events, calls,
                 pending, finished, nExternal, nFaults,
                 stopVars, diffVars, callVars, textVars>>

\* createFolders: no folder was scanned; throw NO_INBOX, which the port
\* listener reports as an error event
ScanNoInbox ==
  /\ pc = "scan"
  /\ findInboxFolder(scanAccount(acct, host), RootPath) = {NoFolder}
  /\ folderMap' = <<>>
  /\ scanned' = {}
  /\ inbox' = NoFolder
  /\ events' = Post(events, [type |-> "error", error |-> Message(NO_INBOX, <<>>)])
  /\ pc' = "done"
  /\ UNCHANGED <<scanVars, runs, acct, host, paths, sortedPaths, i, j, results, calls, pending,
                 finished, nExternal, nFaults,
                 stopVars, diffVars, callVars, textVars>>

\* createFolders loop head: sendProgress, then processPath begins
PathStart ==
  /\ pc = "loop"
  /\ i <= Len(sortedPaths)
  /\ events' = sendProgress(events, i, Len(sortedPaths), sortedPaths[i])
  /\ j' = 1
  /\ pc' = "seg"
  /\ UNCHANGED <<scanVars, runs, acct, host, paths, sortedPaths, i, folderMap, inbox, scanned,
                 results, calls, pending, finished, nExternal, nFaults,
                 stopVars, diffVars, callVars, textVars>>

\* processPath: the prefix is in the map, continue
SegmentKnown ==
  /\ pc = "seg"
  /\ j <= Len(sortedPaths[i])
  /\ Lower(Prefix(sortedPaths[i], j)) \in DOMAIN folderMap
  /\ j' = j + 1
  /\ UNCHANGED <<scanVars, runs, acct, host, pc, paths, sortedPaths, i, folderMap, inbox, scanned,
                 results, events, calls, pending, finished, nExternal,
                 nFaults,
                 stopVars, diffVars, callVars, textVars>>

\* getParentId throws: the parent prefix is not in the map
SegmentMissingParent ==
  /\ pc = "seg"
  /\ j <= Len(sortedPaths[i])
  /\ Lower(Prefix(sortedPaths[i], j)) \notin DOMAIN folderMap
  /\ j > 1
  /\ LET parentPath == Lower(Prefix(sortedPaths[i], j - 1))
     IN /\ parentPath \notin DOMAIN folderMap
        /\ results' = handleCreationError(MISSING_PARENT(parentPath),
                                          sortedPaths[i], results)
  /\ i' = i + 1
  /\ pc' = "loop"
  /\ UNCHANGED <<scanVars, runs, acct, host, paths, sortedPaths, j, folderMap, inbox, scanned,
                 events, calls, pending, finished, nExternal, nFaults,
                 stopVars, diffVars, callVars, textVars>>

\* getParentId(folderMap, inbox, pathParts, index), when it does not throw
getParentId(fm, ib, parts, index) ==
  IF index = 1 THEN ib.id
  ELSE fm[Lower(Prefix(parts, index - 1))].id

\* processPath: the prefix is not in the map; call MailClient.createFolder
SegmentCreate ==
  /\ pc = "seg"
  /\ j <= Len(sortedPaths[i])
  /\ Lower(Prefix(sortedPaths[i], j)) \notin DOMAIN folderMap
  /\ j = 1 \/ Lower(Prefix(sortedPaths[i], j - 1)) \in DOMAIN folderMap
  /\ pending' = [parentId |-> getParentId(folderMap, inbox, sortedPaths[i], j),
                 name |-> sortedPaths[i][j]]
  /\ calls' = Append(calls, [parentId |-> pending'.parentId,
                             name |-> pending'.name,
                             index |-> i,
                             prefix |-> Prefix(sortedPaths[i], j),
                             posted |-> Len(events),
                             outcome |-> "pending"])
  /\ pc' = "await"
  /\ UNCHANGED <<scanVars, runs, acct, host, paths, sortedPaths, i, j, folderMap, inbox, scanned,
                 results, events, finished, nExternal, nFaults,
                 stopVars, diffVars, callVars, textVars>>

\* the outcome of the last host call becomes known
Outcome(cs, o) == [cs EXCEPT ![Len(cs)].outcome = o]

\* messenger.folders.create makes the folder; createAndCache stores it
CreateOk ==
  /\ pc = "await"
  /\ LET cp == ChildPath(pending.parentId, pending.name)
     IN /\ cp \notin host
        /\ host' = host \cup {cp}
        /\ folderMap' = createAndCache(folderMap, HostNode(cp))
  /\ calls' = Outcome(calls, "created")
  /\ pending' = NoCall
  /\ j' = j + 1
  /\ pc' = "seg"
  /\ UNCHANGED <<scanVars, runs, acct, paths, sortedPaths, i, inbox, scanned, results, events,
                 finished, nExternal, nFaults,
                 stopVars, diffVars, callVars, textVars>>

\* messenger.folders.create rejects: the parent has a folder of that name
CreateExists ==
  /\ pc = "await"
  /\ ChildPath(pending.parentId, pending.name) \in host
  /\ calls' = Outcome(calls, ALREADY_EXISTS)
  /\ results' = handleCreationError(Message(ALREADY_EXISTS, <<>>), sortedPaths[i],
                                    results)
  /\ pending' = NoCall
  /\ i' = i + 1
  /\ pc' = "loop"
  /\ UNCHANGED <<scanVars, runs, acct, host, paths, sortedPaths, j, folderMap, inbox, scanned,
                 events, finished, nExternal, nFaults,
                 stopVars, diffVars, callVars, textVars>>

\* createFolders without the try/catch around processPath: the rejection
\* leaves createFolders and the port listener reports it
CreateFault_Abort ==
  /\ pc = "await"
  /\ nFaults < MaxFaults
  /\ nFaults' = nFaults + 1
  /\ calls' = Outcome(calls, PERMISSION_DENIED)
  /\ events' = Post(events, [type |-> "error",
                             error |-> Message(PERMISSION_DENIED, <<>>)])
  /\ pending' = NoCall
  /\ pc' = "done"
  /\ UNCHANGED <<scanVars, runs, acct, host, paths, sortedPaths, i, j, folderMap, inbox,
                 scanned, results, finished, nExternal,
                 stopVars, diffVars, callVars, textVars>>

\* messenger.folders.create rejects with any other error
CreateFault ==
  /\ pc = "await"
  /\ nFaults < MaxFaults
  /\ nFaults' = nFaults + 1
  /\ calls' = Outcome(calls, PERMISSION_DENIED)
  /\ results' = handleCreationError(Message(PERMISSION_DENIED, <<>>),
                                    sortedPaths[i], results)
  /\ pending' = NoCall
  /\ i' = i + 1
  /\ pc' = "loop"
  /\ UNCHANGED <<scanVars, runs, acct, host, paths, sortedPaths, j, folderMap, inbox, scanned,
                 events, finished, nExternal,
                 stopVars, diffVars, callVars, textVars>>

\* createFolders posting folderComplete without recording the path
PathDone_NotRecorded ==
  /\ pc = "seg"
  /\ j > Len(sortedPaths[i])
  /\ events' = sendFolderComplete(events, sortedPaths[i])
  /\ i' = i + 1
  /\ pc' = "loop"
  /\ UNCHANGED <<scanVars, runs, acct, host, paths, sortedPaths, j, folderMap,
                 inbox, scanned, results, calls, pending, finished, nExternal,
                 nFaults, stopVars, diffVars, callVars, textVars>>

\* createFolders: processPath returned; push to created, sendFolderComplete
PathDone ==
  /\ pc = "seg"
  /\ j > Len(sortedPaths[i])
  /\ results' = [results EXCEPT !.created = Append(@, sortedPaths[i])]
  /\ events' = sendFolderComplete(events, sortedPaths[i])
  /\ i' = i + 1
  /\ pc' = "loop"
  /\ UNCHANGED <<scanVars, runs, acct, host, paths, sortedPaths, j, folderMap, inbox, scanned,
                 calls, pending, finished, nExternal, nFaults,
                 stopVars, diffVars, callVars, textVars>>

\* createFolders returns; the port listener posts the complete event
BatchDone ==
  /\ pc = "loop"
  /\ i > Len(sortedPaths)
  /\ events' = Post(events, [type |-> "complete", results |-> results])
  /\ pc' = "done"
  /\ UNCHANGED <<scanVars, runs, acct, host, paths, sortedPaths, i, j, folderMap, inbox, scanned,
                 results, calls, pending, finished, nExternal, nFaults,
                 stopVars, diffVars, callVars, textVars>>

Next ==
  \/ ExternalCreate
  \/ Receive
  \/ Rerun
  \/ ScanDone
  \/ ScanNoInbox
  \/ PathStart
  \/ SegmentKnown
  \/ SegmentMissingParent
  \/ SegmentCreate
  \/ CreateOk
  \/ CreateExists
  \/ CreateFault
  \/ PathDone
  \/ BatchDone

Spec == Init /\ [][Next]_vars

\* ------------------------------------------------------------------------
\* background.js: createMissingFolders and createFolder, the creation
\* batch with the stop signal
\* ------------------------------------------------------------------------

\* a.length of a path string: the segments and the separators between them
NameLength(n) == IF n = INBOX_FOLDER_NAME THEN 5 ELSE 1

RECURSIVE StringLength(_)
StringLength(p) ==
  IF p = <<>> THEN 0
  ELSE NameLength(Head(p)) + (IF Len(p) > 1 THEN 1 ELSE 0)
       + StringLength(Tail(p))

\* the comparator of folderPaths.sort: by depth, then by length
ComesBefore(a, b) ==
  IF Len(a) # Len(b) THEN Len(a) < Len(b)
  ELSE StringLength(a) < StringLength(b)

\* Array.prototype.sort with that comparator (a stable sort)
RECURSIVE InsertPath(_, _)
InsertPath(sorted, p) ==
  IF sorted = <<>> THEN <<p>>
  ELSE IF ComesBefore(p, Last(sorted))
       THEN Append(InsertPath(SubSeq(sorted, 1, Len(sorted) - 1), p),
                   Last(sorted))
       ELSE Append(sorted, p)

RECURSIVE SortFolderPaths(_)
SortFolderPaths(ps) ==
  IF ps = <<>> THEN <<>>
  ELSE InsertPath(SortFolderPaths(SubSeq(ps, 1, Len(ps) - 1)), Last(ps))

\* port.postMessage guarded by `port && !stopRequested`
PostUnlessStopped(ev, stop, msg) == IF stop THEN ev ELSE Post(ev, msg)

\* buildMap over account.folders: lower-cased name path -> folder
LegacyFolderMaps(h) == FolderMaps({createFolderItem(HostNode(p), 0) : p \in h})

\* rootFolders.find(f => f.type === 'inbox') || rootFolders[0]
LegacyRoot(h) ==
  LET roots == {p \in h : Len(p) = 2}
  IN IF InboxPath \in roots THEN {HostNode(InboxPath)}
     ELSE IF roots = {} THEN {NoFolder}
     ELSE {HostNode(p) : p \in roots}

InitLegacy ==
  /\ ScanIdle
  /\ RunsIdle
  /\ acct = "folders"
  /\ host \in {{}, {InboxPath}}
  /\ pc = "idle"
  /\ paths = <<>>
  /\ sortedPaths = <<>>
  /\ i = 0
  /\ j = 0
  /\ folderMap = <<>>
  /\ inbox = NoFolder
  /\ scanned = {}
  /\ results = [created |-> <<>>, failed |-> <<>>]
  /\ events = <<>>
  /\ calls = <<>>
  /\ pending = NoCall
  /\ finished = <<>>
  /\ nExternal = 0
  /\ nFaults = 0
  /\ stopRequested = FALSE
  /\ stoppedAt = 0
  /\ DiffIdle
  /\ TextIdle
  /\ CallIdle

\* Another client makes a folder on the server while the worker awaits
LegacyExternalCreate ==
  /\ pc \in {"idle", "get", "await"}
  /\ nExternal < MaxExternal
  /\ \E c \in SeqsUpTo(HostNames, 1, MaxDepth) :
       LET p == <<"">> \o c
       IN /\ p \notin host
          /\ (Len(p) = 2 \/ ParentPath(p) \in host)
          /\ host' = host \cup {p}
  /\ nExternal' = nExternal + 1
  /\ UNCHANGED <<scanVars, runs, acct, pc, paths, sortedPaths, i, j, folderMap, inbox,
                 scanned, results, events, calls, pending, finished, nFaults,
                 stopVars, diffVars, callVars, textVars>>

\* port.onMessage listener: createMissingFolders sorts folderPaths in place
\* and registers the disconnect listener
LegacyReceive ==
  /\ pc = "idle"
  /\ \E batch \in Batches :
       /\ paths' = SortFolderPaths(batch)
       /\ sortedPaths' = SortFolderPaths(batch)
  /\ results' = [created |-> <<>>, failed |-> <<>>]
  /\ stopRequested' = FALSE
  /\ stoppedAt' = 0
  /\ i' = 1
  /\ pc' = "loop"
  /\ UNCHANGED <<scanVars, runs, acct, host, j, folderMap, inbox, scanned, events, calls,
                 pending, finished, nExternal, nFaults, diffVars, textVars, callVars>>

\* The other end disconnects the port while the worker awaits the host;
\* disconnectHandler sets stopRequested
Disconnect ==
  /\ pc \in {"get", "await"}
  /\ ~stopRequested
  /\ stopRequested' = TRUE
  /\ stoppedAt' = i
  /\ UNCHANGED <<scanVars, runs, acct, host, pc, paths, sortedPaths, i, j, folderMap, inbox,
                 scanned, results, events, calls, pending, finished,
                 nExternal, nFaults, diffVars, textVars, callVars>>

\* createMissingFolders loop head without `if (stopRequested) break`
LegacyPathStart_NoStopCheck ==
  /\ pc = "loop"
  /\ i <= Len(sortedPaths)
  /\ events' = PostUnlessStopped(events, stopRequested,
                 [type |-> "progress", current |-> i,
                  total |-> Len(sortedPaths), path |-> sortedPaths[i]])
  /\ pc' = "get"
  /\ UNCHANGED <<scanVars, runs, acct, host, paths, sortedPaths, i, j, folderMap, inbox,
                 scanned, results, calls, pending, finished, nExternal,
                 nFaults, stopVars, diffVars, callVars, textVars>>

\* createMissingFolders loop head: not stopped; post progress and call
\* createFolder, which awaits messenger.accounts.get
LegacyPathStart ==
  /\ pc = "loop"
  /\ i <= Len(sortedPaths)
  /\ ~stopRequested
  /\ events' = PostUnlessStopped(events, stopRequested,
                 [type |-> "progress", current |-> i,
                  total |-> Len(sortedPaths), path |-> sortedPaths[i]])
  /\ pc' = "get"
  /\ UNCHANGED <<scanVars, runs, acct, host, paths, sortedPaths, i, j, folderMap, inbox,
                 scanned, results, calls, pending, finished, nExternal,
                 nFaults, stopVars, diffVars, callVars, textVars>>

\* createFolder: the account arrived; buildMap over its folder tree
LegacyGetAccount ==
  /\ pc = "get"
  /\ folderMap' \in LegacyFolderMaps(host)
  /\ inbox' \in LegacyRoot(host)
  /\ j' = 1
  /\ pc' = "seg"
  /\ UNCHANGED <<scanVars, runs, acct, host, paths, sortedPaths, i, scanned, results, events,
                 calls, pending, finished, nExternal, nFaults, stopVars, diffVars, callVars, textVars>>

\* createFolder: the prefix is in the map, continue
LegacySegmentKnown ==
  /\ pc = "seg"
  /\ j <= Len(sortedPaths[i])
  /\ Lower(Prefix(sortedPaths[i], j)) \in DOMAIN folderMap
  /\ j' = j + 1
  /\ UNCHANGED <<scanVars, runs, acct, host, pc, paths, sortedPaths, i, folderMap, inbox,
                 scanned, results, events, calls, pending, finished,
                 nExternal, nFaults, stopVars, diffVars, callVars, textVars>>

\* the parent createFolder uses for segment j, or NoFolder
LegacyParent(fm, root, parts, index) ==
  IF index = 1 THEN root
  ELSE IF Lower(Prefix(parts, index - 1)) \in DOMAIN fm
       THEN fm[Lower(Prefix(parts, index - 1))]
       ELSE NoFolder

\* createMissingFolders: createFolder threw `message`
LegacyFail(message) ==
  /\ results' = [results EXCEPT
                   !.failed = Append(@, [path |-> sortedPaths[i],
                                         error |-> message])]
  /\ events' = PostUnlessStopped(events, stopRequested,
                 [type |-> "folderFailed", path |-> sortedPaths[i],
                  error |-> message])
  /\ i' = i + 1
  /\ pc' = "loop"

\* createFolder: no parent for the prefix; throw
LegacySegmentNoParent ==
  /\ pc = "seg"
  /\ j <= Len(sortedPaths[i])
  /\ Lower(Prefix(sortedPaths[i], j)) \notin DOMAIN folderMap
  /\ LegacyParent(folderMap, inbox, sortedPaths[i], j) = NoFolder
  /\ LegacyFail(Message("Parent folder not found for: ",
                        Prefix(sortedPaths[i], j)))
  /\ UNCHANGED <<scanVars, runs, acct, host, paths, sortedPaths, j, folderMap, inbox,
                 scanned, calls, pending, finished, nExternal, nFaults,
                 stopVars, diffVars, callVars, textVars>>

\* createFolder: call messenger.folders.create(parent, parts[i])
LegacySegmentCreate ==
  /\ pc = "seg"
  /\ j <= Len(sortedPaths[i])
  /\ Lower(Prefix(sortedPaths[i], j)) \notin DOMAIN folderMap
  /\ LegacyParent(folderMap, inbox, sortedPaths[i], j) # NoFolder
  /\ pending' = [parentId |->
                   LegacyParent(folderMap, inbox, sortedPaths[i], j).id,
                 name |-> sortedPaths[i][j]]
  /\ calls' = Append(calls, [parentId |-> pending'.parentId,
                             name |-> pending'.name,
                             index |-> i,
                             prefix |-> Prefix(sortedPaths[i], j),
                             posted |-> Len(events),
                             stopped |-> stopRequested,
                             outcome |-> "pending"])
  /\ pc' = "await"
  /\ UNCHANGED <<scanVars, runs, acct, host, paths, sortedPaths, i, j, folderMap, inbox,
                 scanned, results, events, finished, nExternal, nFaults,
                 stopVars, diffVars, callVars, textVars>>

\* the host made the folder: folderMap.set(normalized, created)
LegacyCreateOk ==
  /\ pc = "await"
  /\ LET cp == ChildPath(pending.parentId, pending.name)
         key == Lower(Prefix(sortedPaths[i], j))
     IN /\ cp \notin host
        /\ host' = host \cup {cp}
        /\ folderMap' = [k \in DOMAIN folderMap \cup {key} |->
                           IF k = key THEN HostNode(cp) ELSE folderMap[k]]
  /\ calls' = Outcome(calls, "created")
  /\ pending' = NoCall
  /\ j' = j + 1
  /\ pc' = "seg"
  /\ UNCHANGED <<scanVars, runs, acct, paths, sortedPaths, i, inbox, scanned, results,
                 events, finished, nExternal, nFaults, stopVars, diffVars, callVars, textVars>>

\* the host answers "already exists": createFolder ignores it and goes on
\* with the next segment
LegacyCreateExists ==
  /\ pc = "await"
  /\ ChildPath(pending.parentId, pending.name) \in host
  /\ calls' = Outcome(calls, ALREADY_EXISTS)
  /\ pending' = NoCall
  /\ j' = j + 1
  /\ pc' = "seg"
  /\ UNCHANGED <<scanVars, runs, acct, host, paths, sortedPaths, i, folderMap, inbox,
                 scanned, results, events, finished, nExternal, nFaults,
                 stopVars, diffVars, callVars, textVars>>

\* the host rejects with another error: createFolder rethrows
LegacyCreateFault ==
  /\ pc = "await"
  /\ nFaults < MaxFaults
  /\ nFaults' = nFaults + 1
  /\ calls' = Outcome(calls, PERMISSION_DENIED)
  /\ pending' = NoCall
  /\ LegacyFail(Message(PERMISSION_DENIED, <<>>))
  /\ UNCHANGED <<scanVars, runs, acct, host, paths, sortedPaths, j, folderMap, inbox,
                 scanned, finished, nExternal, stopVars, diffVars, callVars, textVars>>

\* createFolder returned: created.push and folderComplete
LegacyPathDone ==
  /\ pc = "seg"
  /\ j > Len(sortedPaths[i])
  /\ results' = [results EXCEPT !.created = Append(@, sortedPaths[i])]
  /\ events' = PostUnlessStopped(events, stopRequested,
                 [type |-> "folderComplete", path |-> sortedPaths[i]])
  /\ i' = i + 1
  /\ pc' = "loop"
  /\ UNCHANGED <<scanVars, runs, acct, host, paths, sortedPaths, j, folderMap, inbox,
                 scanned, calls, pending, finished, nExternal, nFaults,
                 stopVars, diffVars, callVars, textVars>>

\* the loop ends, by its bound or by `if (stopRequested) break`; the
\* listener posts complete, which a disconnected port does not deliver
LegacyBatchDone ==
  /\ pc = "loop"
  /\ i > Len(sortedPaths) \/ stopRequested
  /\ events' = PostUnlessStopped(events, stopRequested,
                 [type |-> "complete", results |-> results])
  /\ pc' = "done"
  /\ UNCHANGED <<scanVars, runs, acct, host, paths, sortedPaths, i, j, folderMap, inbox,
                 scanned, results, calls, pending, finished, nExternal,
                 nFaults, stopVars, diffVars, callVars, textVars>>

NextLegacy ==
  \/ LegacyExternalCreate
  \/ LegacyReceive
  \/ Disconnect
  \/ LegacyPathStart
  \/ LegacyGetAccount
  \/ LegacySegmentKnown
  \/ LegacySegmentNoParent
  \/ LegacySegmentCreate
  \/ LegacyCreateOk
  \/ LegacyCreateExists
  \/ LegacyCreateFault
  \/ LegacyPathDone
  \/ LegacyBatchDone

SpecLegacy == InitLegacy /\ [][NextLegacy]_vars

\* ------------------------------------------------------------------------
\* background.js: analyze, the reconciliation diff
\* ------------------------------------------------------------------------

\* lists without a repeated element, as unique() returns them
UniqueLists(S, n) ==
  {sq \in SeqsUpTo(S, 0, n) :
     \A a, b \in 1..Len(sq) : a # b => sq[a] # sq[b]}

\* the paths the diff compares, without a leading slash
DiffPaths == SeqsUpTo(HostNames, 1, MaxDiffDepth)

\* the folder items scanAccount returns for the host paths in F
ScannedItems(F) == {createFolderItem(HostNode(<<"">> \o p), 0) : p \in F}

\* buildExistingSets(folders)
buildExistingSets(folders) ==
  [exact |-> {f.cleanPath : f \in folders},
   lower |-> {Lower(f.cleanPath) : f \in folders}]

\* isMissingPath consulting the lower-cased set whatever mergeCase is
isMissingPath_AlwaysMergeCase(existingSets, merge, path) ==
  IF path \in existingSets.exact THEN FALSE
  ELSE IF Lower(path) \in existingSets.lower THEN FALSE
  ELSE TRUE

\* isMissingPath(existingSets, mergeCase, path)
isMissingPath(existingSets, merge, path) ==
  IF path \in existingSets.exact THEN FALSE
  ELSE IF merge /\ Lower(path) \in existingSets.lower THEN FALSE
  ELSE TRUE

InitDiff ==
  /\ ScanIdle
  /\ RunsIdle
  /\ EngineIdle
  /\ TextIdle
  /\ CallIdle
  /\ requiredPaths \in UniqueLists(DiffPaths, MaxRequired)
  /\ \E F \in SUBSET DiffPaths :
       /\ Cardinality(F) <= MaxExisting
       /\ existingFolders = ScannedItems(F)
  /\ mergeCase \in BOOLEAN
  /\ missing = <<>>
  /\ diffPc = "ready"
  /\ renamed = NoFolder

\* analyze(data): requiredPaths.filter(isMissingPath)
Analyze ==
  /\ diffPc = "ready"
  /\ LET existingSets == buildExistingSets(existingFolders)
         keep(path) == isMissingPath(existingSets, mergeCase, path)
     IN missing' = SelectSeq(requiredPaths, keep)
  /\ diffPc' = "analyzed"
  /\ UNCHANGED <<scanVars, runs, acct, host, pc, paths, sortedPaths, i, j, folderMap, inbox,
                 scanned, results, events, calls, pending, finished,
                 nExternal, nFaults, stopVars, requiredPaths,
                 existingFolders, mergeCase, renamed, textVars, callVars>>

\* Between two analyses a folder of the account is renamed to the same
\* name in another letter case
RenameFolder ==
  /\ diffPc = "analyzed"
  /\ renamed = NoFolder
  /\ \E f \in existingFolders, q \in DiffPaths :
       /\ q # f.cleanPath
       /\ Lower(q) = Lower(f.cleanPath)
       /\ q \notin {g.cleanPath : g \in existingFolders}
       /\ existingFolders' = (existingFolders \ {f}) \cup ScannedItems({q})
       /\ renamed' = [from |-> f.cleanPath, to |-> q,
                      before |-> existingFolders]
  /\ diffPc' = "ready"
  /\ UNCHANGED <<scanVars, runs, acct, host, pc, paths, sortedPaths, i, j, folderMap, inbox,
                 scanned, results, events, calls, pending, finished,
                 nExternal, nFaults, stopVars, requiredPaths, mergeCase,
                 missing, textVars, callVars>>

\* The user switches the merge-case option before the next analysis
SetMergeCase ==
  /\ diffPc = "analyzed"
  /\ mergeCase' = ~mergeCase
  /\ diffPc' = "ready"
  /\ UNCHANGED <<scanVars, runs, acct, host, pc, paths, sortedPaths, i, j, folderMap, inbox,
                 scanned, results, events, calls, pending, finished,
                 nExternal, nFaults, stopVars, requiredPaths,
                 existingFolders, missing, renamed, textVars, callVars>>

NextDiff ==
  \/ Analyze
  \/ RenameFolder
  \/ SetMergeCase

SpecDiff == InitDiff /\ [][NextDiff]_vars

\* ------------------------------------------------------------------------
\* RuleEngine: parse, generateBlock, sortRawRules, and the rules window
\* ------------------------------------------------------------------------
\* A rules text is the list of its lexical pieces.  A piece is a line
\* break, or the content of one line:
\*   name        name="From <v>"      (it starts with the marker  name=" )
\*   rest        "From <v>"           (a name line after  name=  was cut off)
\*   enabled     enabled="<v>"
\*   type        type="<v>"
\*   action      action="<v>"
\*   actionValue actionValue="<v>"    (v is a URI)
\*   condition   condition="AND (from,contains,<v>)"
\*   header      <v>="9"              (a line of the file header)
\* The marker  name=  occurs in name pieces only and a line break in nl
\* pieces only.
Tok(t, v) == [t |-> t, v |-> v]
NL == Tok("nl", "")

DEFAULT_FILTER_TYPE == 17
MOVE_TO_FOLDER == "Move to folder"
IMAP_BASE == "imap://u@h"
MAILBOX_BASE == "mailbox://nobody@Local%20Folders"
NEWS_BASE == "news://news.d"

\* the base URIs URI_TO_PATH matches: scheme imap or mailbox
README_BASE == "imap://user@server.com"
RecognizedBases == {IMAP_BASE, MAILBOX_BASE, README_BASE}
ZZZ == <<"zzz">>

\* null, for a rule and a URI
NoRule == [null |-> TRUE]

\* null for a path; like the empty string it counts as false
NoPath == <<>>

\* the senders and the target paths of the rules in the window
Emails == {"x@d", "y@d"}
RulePaths == {<<"a b">>, <<"Zzzz">>}

\* what a function that raised a URIError is modelled to return: as a
\* path, as a rule, as a list of rules and as a text
URIError == <<"URIError">>
ThrownRule == [threw |-> "URIError"]
ThrownRules == <<ThrownRule>>
ThrownText == <<Tok("threw", "URIError")>>

\* encodeURIComponent on one segment ("U+00E9" stands for the letter e
\* with an acute accent)
EncodeName(n) ==
  CASE n = "a b" -> "a%20b"
    [] n = "U+00E9" -> "%C3%A9"
    [] n = "100%" -> "100%25"
    [] OTHER -> n

\* whether decodeURIComponent raises a URIError on the segment
Malformed(n) == n \in {"%zz", "100%"}

\* decodeURIComponent on one segment that is well formed
DecodeName(n) ==
  CASE n = "a%20b" -> "a b"
    [] n = "%C3%A9" -> "U+00E9"
    [] n = "100%25" -> "100%"
    [] OTHER -> n

\* the lists of a list of lists, one after the other: join('')
RECURSIVE Concat(_)
Concat(lists) ==
  IF lists = <<>> THEN <<>> ELSE Head(lists) \o Concat(Tail(lists))

\* join('\n')
RECURSIVE JoinLines(_)
JoinLines(lists) ==
  IF lists = <<>> THEN <<>>
  ELSE IF Len(lists) = 1 THEN Head(lists)
  ELSE Head(lists) \o <<NL>> \o JoinLines(Tail(lists))

\* the pieces of a text that start at index 1 and at the indices in cuts
Pieces(text, cuts) ==
  LET starts == {1} \cup cuts
      nth(k) == CHOOSE st \in starts :
                  Cardinality({x \in starts : x < st}) = k - 1
      stop(k) == IF k = Cardinality(starts) THEN Len(text)
                 ELSE nth(k + 1) - 1
  IN [k \in 1..Cardinality(starts) |-> SubSeq(text, nth(k), stop(k))]

\* buildFullUri without encodeURIComponent
buildFullUri_NoEncode(baseUri, path) == [base |-> baseUri, path |-> path]

\* buildFullUri(baseUri, path)
buildFullUri(baseUri, path) ==
  [base |-> baseUri,
   path |-> [k \in 1..Len(path) |-> EncodeName(path[k])]]

\* generateBlock(baseUri, email, path, typeValue): six lines, the last
\* one without a line break
generateBlock(baseUri, email, path, typeValue) ==
  <<Tok("name", email), NL,
    Tok("enabled", "yes"), NL,
    Tok("type", typeValue), NL,
    Tok("action", MOVE_TO_FOLDER), NL,
    Tok("actionValue", buildFullUri(baseUri, path)), NL,
    Tok("condition", email)>>

\* extractUriFromBlock(block): ACTION_URI matches from the first
\* action="Move to folder" to the first actionValue after it
extractUriFromBlock(block) ==
  LET acts == {k \in 1..Len(block) : block[k] = Tok("action", MOVE_TO_FOLDER)}
      first == CHOOSE k \in acts : \A m \in acts : k <= m
      vals == {k \in 1..Len(block) :
                 block[k].t = "actionValue" /\ k > first}
  IN IF acts = {} \/ vals = {} THEN NoRule
     ELSE block[CHOOSE k \in vals : \A m \in vals : k <= m].v

\* uriToPath(uri): URI_TO_PATH, then decodeURIComponent
uriToPath(uri) ==
  IF uri.base \in RecognizedBases /\ uri.path # <<>>
  THEN IF \E k \in 1..Len(uri.path) : Malformed(uri.path[k])
       THEN URIError
       ELSE [k \in 1..Len(uri.path) |-> DecodeName(uri.path[k])]
  ELSE NoPath

\* extractPathFromBlock(block)
extractPathFromBlock(block) ==
  LET uri == extractUriFromBlock(block)
  IN IF uri # NoRule THEN uriToPath(uri) ELSE NoPath

\* how many @ a string has
AtSigns(e) ==
  CASE e \in {"a", "", "bob", "Bob"} -> 0
    [] e = "a@b@c" -> 2
    [] OTHER -> 1

\* what EMAIL_CONDITION captures of the value of a from condition: the
\* text up to the first closing parenthesis
ConditionValue(v) == CASE v = "a)b@d" -> "a" [] OTHER -> v

\* extractEmailsFromBlock(block): the addresses of the from conditions
extractEmailsFromBlock(block) ==
  LET conds == SelectSeq(block, LAMBDA tk : tk.t = "condition")
      rawEmail == [k \in 1..Len(conds) |-> LowerName(ConditionValue(conds[k].v))]
  IN SelectSeq(rawEmail, LAMBDA e : AtSigns(e) > 0)

\* parseRuleBlock(block)
parseRuleBlock(block) ==
  IF \A k \in 1..Len(block) : block[k] = NL THEN NoRule
  ELSE LET uri == extractUriFromBlock(block)
           path == IF uri # NoRule THEN uriToPath(uri) ELSE NoPath
       IN IF path = NoPath THEN NoRule
          ELSE IF path = URIError THEN ThrownRule
          ELSE [path |-> path,
                emails |-> extractEmailsFromBlock(block),
                uri |-> uri,
                enabled |-> \E k \in 1..Len(block) :
                               block[k] = Tok("enabled", "yes")]

\* content.split(RULE_NAME_MARKER): cut at each  name=  that starts a
\* line, the marker itself removed
SplitAtLineMarkers(content) ==
  LET marks == {k \in 1..Len(content) :
                  /\ content[k].t = "name"
                  /\ (k = 1 \/ content[k - 1] = NL)}
      cut(b) == IF b # <<>> /\ Head(b).t = "name"
                THEN <<Tok("rest", Head(b).v)>> \o Tail(b)
                ELSE b
      parts == Pieces(content, marks \ {1})
      blocks == [k \in 1..Len(parts) |-> cut(parts[k])]
  IN IF 1 \in marks THEN <<<<>>>> \o blocks ELSE blocks

\* parse(content)
parse(content) ==
  IF content = <<>> THEN <<>>
  ELSE LET blocks == SplitAtLineMarkers(content)
           rules == [k \in 1..Len(blocks) |-> parseRuleBlock(blocks[k])]
       IN IF \E k \in 1..Len(rules) : rules[k] = ThrownRule
          THEN ThrownRules
          ELSE SelectSeq(rules, LAMBDA r : r # NoRule)

\* position of a lower-cased path in the order of localeCompare
CollationRank(key) ==
  CASE key = <<"a b">> -> 1
    [] key = ZZZ -> 2
    [] key = <<"zzzz">> -> 3

\* compareRulesByPath(a, b) < 0
compareRulesByPath(a, b) ==
  LET pathA == extractPathFromBlock(a)
      pathB == extractPathFromBlock(b)
      keyA == Lower(IF pathA # NoPath THEN pathA ELSE ZZZ)
      keyB == Lower(IF pathB # NoPath THEN pathB ELSE ZZZ)
  IN CollationRank(keyA) < CollationRank(keyB)

\* sortBy(compareRulesByPath, rawRules): a stable sort of a copy
RECURSIVE InsertRule(_, _)
InsertRule(sorted, b) ==
  IF sorted = <<>> THEN <<b>>
  ELSE IF compareRulesByPath(b, Last(sorted))
       THEN Append(InsertRule(SubSeq(sorted, 1, Len(sorted) - 1), b),
                   Last(sorted))
       ELSE Append(sorted, b)

RECURSIVE sortBy(_)
sortBy(rawRules) ==
  IF rawRules = <<>> THEN <<>>
  ELSE InsertRule(sortBy(SubSeq(rawRules, 1, Len(rawRules) - 1)),
                  Last(rawRules))

\* content.indexOf('name="'), 0 when there is none
FirstMarker(content) ==
  LET marks == {k \in 1..Len(content) : content[k].t = "name"}
  IN IF marks = {} THEN 0 ELSE CHOOSE k \in marks : \A m \in marks : k <= m

\* rulesContent.split(RULE_NAME_SPLIT): cut before every  name="
SplitBeforeMarkers(rulesContent) ==
  Pieces(rulesContent,
         {k \in 2..Len(rulesContent) : rulesContent[k].t = "name"})

\* the sort calls compareRulesByPath on a block whose URI does not decode
ComparatorThrows(rawRules) ==
  /\ Len(rawRules) > 1
  /\ \E k \in 1..Len(rawRules) : extractPathFromBlock(rawRules[k]) = URIError

\* sortRawRules joining the sorted blocks with line breaks
sortRawRules_JoinLines(content) ==
  LET firstIdx == FirstMarker(content)
      header == SubSeq(content, 1, firstIdx - 1)
      rulesContent == SubSeq(content, firstIdx, Len(content))
      rawRules == SplitBeforeMarkers(rulesContent)
  IN IF firstIdx = 0 THEN content
     ELSE IF ComparatorThrows(rawRules) THEN ThrownText
     ELSE header \o JoinLines(sortBy(rawRules))

\* sortRawRules(content)
sortRawRules(content) ==
  LET firstIdx == FirstMarker(content)
      header == SubSeq(content, 1, firstIdx - 1)
      rulesContent == SubSeq(content, firstIdx, Len(content))
      rawRules == SplitBeforeMarkers(rulesContent)
  IN IF firstIdx = 0 THEN content
     ELSE IF ComparatorThrows(rawRules) THEN ThrownText
     ELSE header \o Concat(sortBy(rawRules))

\* a rule block as msgFilterRules.dat holds it, every line ended
FileBlocks ==
  {<<Tok("name", e), NL, Tok("enabled", en), NL,
     Tok("type", DEFAULT_FILTER_TYPE), NL>> \o act \o
   <<Tok("condition", e), NL>> :
     e \in Emails, en \in {"yes", "no"},
     act \in {<<Tok("action", "Mark read"), NL>>} \cup
             {<<Tok("action", MOVE_TO_FOLDER), NL,
                Tok("actionValue", buildFullUri(IMAP_BASE, p)), NL>> :
                p \in RulePaths}}

\* the header lines of msgFilterRules.dat
FileHeaders ==
  {<<>>, <<Tok("header", "version"), NL, Tok("header", "logging"), NL>>}

\* the texts a user pastes: a header and rule blocks, the last line with
\* or without its line break
FileTexts ==
  LET whole == {h \o Concat(bs) :
                  h \in FileHeaders, bs \in SeqsUpTo(FileBlocks, 0, MaxFileRules)}
  IN whole \cup {SubSeq(tx, 1, Len(tx) - 1) : tx \in whole \ {<<>>}}

InitText ==
  /\ ScanIdle
  /\ RunsIdle
  /\ EngineIdle
  /\ DiffIdle
  /\ CallIdle
  /\ pasteInput \in FileTexts
  /\ genRulesOut = <<>>
  /\ download = NoText
  /\ sortIn = NoText
  /\ sortOut = NoText
  /\ textPc = "editing"

\* btnSortInput.onclick
btnSortInput ==
  /\ textPc = "editing"
  /\ pasteInput # <<>>
  /\ sortIn' = pasteInput
  /\ sortOut' = sortRawRules(pasteInput)
  /\ pasteInput' = sortOut'
  /\ UNCHANGED <<scanVars, runs, acct, host, pc, paths, sortedPaths, i, j, folderMap, inbox,
                 scanned, results, events, calls, pending, finished,
                 nExternal, nFaults, stopVars, diffVars, callVars, genRulesOut,
                 download, textPc>>

\* btnGenRules.onclick: a block for each selected sender, joined by line
\* breaks
btnGenRules ==
  /\ textPc = "editing"
  /\ \E selected \in SeqsUpTo(Emails \X RulePaths, 0, MaxGenerated) :
       genRulesOut' =
         JoinLines([k \in 1..Len(selected) |->
                      generateBlock(IMAP_BASE, selected[k][1],
                                    selected[k][2], DEFAULT_FILTER_TYPE)])
  /\ UNCHANGED <<scanVars, runs, acct, host, pc, paths, sortedPaths, i, j, folderMap, inbox,
                 scanned, results, events, calls, pending, finished,
                 nExternal, nFaults, stopVars, diffVars, callVars, pasteInput,
                 download, sortIn, sortOut, textPc>>

\* btnDownload.onclick with chkSortDownload checked
btnDownloadSorted ==
  /\ textPc = "editing"
  /\ LET combined == pasteInput \o <<NL>> \o genRulesOut
     IN /\ sortIn' = combined
        /\ sortOut' = sortRawRules(combined)
        /\ download' = sortOut'
  /\ textPc' = "saved"
  /\ UNCHANGED <<scanVars, runs, acct, host, pc, paths, sortedPaths, i, j, folderMap, inbox,
                 scanned, results, events, calls, pending, finished,
                 nExternal, nFaults, stopVars, diffVars, callVars, pasteInput,
                 genRulesOut>>

\* btnDownload.onclick with chkSortDownload not checked
btnDownload ==
  /\ textPc = "editing"
  /\ download' = pasteInput \o <<NL>> \o genRulesOut
  /\ textPc' = "saved"
  /\ UNCHANGED <<scanVars, runs, acct, host, pc, paths, sortedPaths, i, j, folderMap, inbox,
                 scanned, results, events, calls, pending, finished,
                 nExternal, nFaults, stopVars, diffVars, callVars, pasteInput,
                 genRulesOut, sortIn, sortOut>>

NextText ==
  \/ btnSortInput
  \/ btnGenRules
  \/ btnDownloadSorted
  \/ btnDownload

SpecText == InitText /\ [][NextText]_vars

\* ------------------------------------------------------------------------
\* RuleEngine and MailClient functions called on their own
\* ------------------------------------------------------------------------

\* FILTER_TYPES
FILTER_TYPES ==
  [NEW_MAIL |-> 1, NEW_MAIL_JUNK |-> 2, MANUAL |-> 16, SENDING |-> 32,
   ARCHIVE |-> 64, PERIODIC |-> 128]

\* the options calculateType reads; a flag that is absent counts as false
Options ==
  [newMail : BOOLEAN, manual : BOOLEAN, afterSending : BOOLEAN,
   archiving : BOOLEAN, periodic : BOOLEAN]

\* state.config, the filter trigger part
Configs ==
  [filterManual : BOOLEAN, filterNewMail : BOOLEAN, filterSending : BOOLEAN,
   filterArchive : BOOLEAN, filterPeriodic : BOOLEAN]

\* the sum calculateType builds, flag by flag
TypeValue(options) ==
  LET v1 == IF options.newMail THEN FILTER_TYPES.NEW_MAIL ELSE 0
      v2 == v1 + (IF options.manual THEN FILTER_TYPES.MANUAL ELSE 0)
      v3 == v2 + (IF options.afterSending THEN FILTER_TYPES.SENDING ELSE 0)
      v4 == v3 + (IF options.archiving THEN FILTER_TYPES.ARCHIVE ELSE 0)
  IN v4 + (IF options.periodic THEN FILTER_TYPES.PERIODIC ELSE 0)

\* calculateType returning the sum also when it is 0
calculateType_NoDefault(options) == TypeValue(options)

\* calculateType(options)
calculateType(options) ==
  IF TypeValue(options) = 0 THEN DEFAULT_FILTER_TYPE ELSE TypeValue(options)

\* getFilterTypeMask() over state.config
getFilterTypeMask(config) ==
  calculateType([manual |-> config.filterManual,
                 newMail |-> config.filterNewMail,
                 afterSending |-> config.filterSending,
                 archiving |-> config.filterArchive,
                 periodic |-> config.filterPeriodic])

\* updateFilterTypes(content, newTypeValue): every type="<digits>" replaced
updateFilterTypes(content, newTypeValue) ==
  [k \in 1..Len(content) |->
     IF content[k].t = "type" THEN Tok("type", newTypeValue) ELSE content[k]]

\* the base URIs, senders and paths rules are generated for
GenBases == {IMAP_BASE, MAILBOX_BASE}
GenEmails == {"x@d", "Bob@D", "a)b@d"}
GenPaths == RulePaths \cup {<<"U+00E9", "100%">>}

\* the texts the type update is applied to: a header and at most one block
TypeTexts == {h \o b : h \in FileHeaders, b \in FileBlocks \cup {<<>>}}

\* a block of msgFilterRules.dat: its lines, each one ended
RuleLines(lines) == Concat([k \in 1..Len(lines) |-> <<lines[k], NL>>])

\* the entry the README shows; it moves to Projects/Client-A
ReadmeBlock ==
  RuleLines(<<Tok("name", "Move to Project"), Tok("enabled", "yes"),
              Tok("type", DEFAULT_FILTER_TYPE), Tok("action", MOVE_TO_FOLDER),
              Tok("actionValue",
                  [base |-> README_BASE, path |-> <<"Projects", "Client-A">>]),
              Tok("otherCondition", "AND (subject,contains,project)")>>)

\* a block that moves the mail from a sender to the folder of a URI
MoveBlock(email, uri) ==
  RuleLines(<<Tok("name", email), Tok("enabled", "yes"),
              Tok("type", DEFAULT_FILTER_TYPE), Tok("action", MOVE_TO_FOLDER),
              Tok("actionValue", uri), Tok("condition", email)>>)

\* the blocks of the texts parse is called on: the README entry, two
\* rules with the same target, one whose URI has a malformed escape, one
\* with a news URI, and one that does not move
ParseBlocks ==
  {ReadmeBlock,
   MoveBlock("x@d", buildFullUri(IMAP_BASE, <<"a b">>)),
   MoveBlock("y@d", buildFullUri(IMAP_BASE, <<"a b">>)),
   MoveBlock("x@d", [base |-> IMAP_BASE, path |-> <<"%zz">>]),
   MoveBlock("y@d", [base |-> NEWS_BASE, path |-> <<"Zzzz">>]),
   RuleLines(<<Tok("name", "x@d"), Tok("enabled", "no"),
               Tok("type", DEFAULT_FILTER_TYPE), Tok("action", "Mark read"),
               Tok("condition", "x@d")>>)}

\* the texts parse is called on
ParseTexts ==
  {h \o Concat(bs) :
     h \in FileHeaders, bs \in SeqsUpTo(ParseBlocks, 0, MaxFileRules)}

\* folder names, and the segments of the URIs that are decoded
PathNames == {"a b", "U+00E9", "100%", "Zzzz"}
UriNames == {"a%20b", "%C3%A9", "100%25", "Zzzz", "%zz"}

\* the URIs uriToPath is called on
Uris ==
  [base : {IMAP_BASE, MAILBOX_BASE, NEWS_BASE},
   path : SeqsUpTo(UriNames, 0, MaxSegments)]

\* An address handed to emailToPath is modelled by what split('@') and then
\* split('.') yield: the list of its parts, each the list of its labels.
\* "Bob@Mail.Example.co.uk" is <<<<"Bob">>, <<"Mail","Example","co","uk">>>>.
DomainLabels == <<"Mail", "Example", "co", "uk">>
UserParts == {<<"Bob">>, <<"j", "Bob">>}
DomainParts ==
  {<<"">>} \cup
  {SubSeq(DomainLabels, ab[1], ab[2]) :
     ab \in {x \in (1..Len(DomainLabels)) \X (1..Len(DomainLabels)) :
              x[1] <= x[2]}}
Addresses ==
  {<<u>> : u \in UserParts} \cup
  {<<u, d>> : u \in UserParts, d \in DomainParts} \cup
  {<<u, d, e>> : u \in UserParts, d \in DomainParts, e \in DomainParts}

\* labels.join('.') for the local parts
DotJoin(labels) ==
  CASE Len(labels) = 1 -> labels[1]
    [] labels = <<"j", "Bob">> -> "j.Bob"

\* [...].reverse()
Reverse(sq) == [k \in 1..Len(sq) |-> sq[Len(sq) + 1 - k]]

\* emailToPath keeping the labels of the domain in their order
emailToPath_NoReverse(email) ==
  IF Len(email) # 2 THEN NoPath
  ELSE Lower(email[2]) \o <<LowerName(DotJoin(email[1]))>>

\* emailToPath(email)
emailToPath(email) ==
  IF Len(email) # 2 THEN NoPath
  ELSE Reverse(Lower(email[2])) \o <<LowerName(DotJoin(email[1]))>>


\* ------------------------------------------------------------------------
\* Sender discovery (MailClient.getSenders)
\* ------------------------------------------------------------------------
DEFAULT_SCAN_LIMIT == 500
NoEmail == "<null>"

\* The author field of a message: `text`, followed by " <angle>" unless
\* angle is empty. An empty text with an empty angle is a message that has
\* no author.
Authors ==
  {[text |-> "Bob", angle |-> "Bob@D"],
   [text |-> "bob@d", angle |-> ""],
   [text |-> "'x@d'", angle |-> ""],
   [text |-> "Me", angle |-> "ME@D"],
   [text |-> "a@b@c", angle |-> ""],
   [text |-> "Bob", angle |-> ""],
   [text |-> "", angle |-> ""]}

\* the identities of an account; an identity without an email has ""
SelfIdentities ==
  {<<>>, <<[email |-> "Me@D"]>>, <<[email |-> ""], [email |-> "x@d"]>>}

\* .replace(/["']/g, '').trim()
StripQuotes(s) == CASE s = "'x@d'" -> "x@d" [] OTHER -> s

\* (match[1] || match[0]).replace(/["']/g, '').trim().toLowerCase(), where
\* match is author.match(/<([^>]+)>/) || [null, author]
AuthorAddress(author) ==
  LowerName(StripQuotes(IF author.angle # "" THEN author.angle
                        ELSE author.text))

\* extractEmail(author)
extractEmail(author) ==
  IF author.text = "" /\ author.angle = "" THEN NoEmail
  ELSE IF AtSigns(AuthorAddress(author)) > 0 THEN AuthorAddress(author)
  ELSE NoEmail

\* shouldExcludeEmail(selfEmails, email)
shouldExcludeEmail(selfEmails, email) ==
  email \in {NoEmail, ""} \/ email \in selfEmails

\* Set.prototype.add on a set that keeps the order of insertion
AddToSet(set, x) ==
  IF \E k \in 1..Len(set) : set[k] = x THEN set ELSE Append(set, x)

\* the loop of getSenders over list
RECURSIVE CollectSenders(_, _, _)
CollectSenders(list, selfEmails, senders) ==
  IF list = <<>> THEN senders
  ELSE LET email == extractEmail(Head(list))
       IN CollectSenders(Tail(list), selfEmails,
                         IF ~shouldExcludeEmail(selfEmails, email)
                         THEN AddToSet(senders, email) ELSE senders)

\* getSenders without the slice
getSenders_NoSlice(messages, limit, selfIdentities) ==
  CollectSenders(messages,
                 {LowerName(selfIdentities[k].email) :
                    k \in 1..Len(selfIdentities)},
                 <<>>)

\* getSenders(folderId, limit, selfIdentities), messages being what
\* api.messages.list gives for the folder
getSenders(messages, limit, selfIdentities) ==
  LET messageLimit == IF limit = 0 THEN DEFAULT_SCAN_LIMIT ELSE limit
      list == SubSeq(messages, 1,
                     IF messageLimit < Len(messages) THEN messageLimit
                     ELSE Len(messages))
      selfEmails == {LowerName(selfIdentities[k].email) :
                       k \in 1..Len(selfIdentities)}
  IN CollectSenders(list, selfEmails, <<>>)


\* ------------------------------------------------------------------------
\* Root inference (inferRoot)
\* ------------------------------------------------------------------------
\* The rules inferRoot is given: a path, as the list of its segments, and
\* the addresses of the rule, each as emailToPath takes it apart.
BobAtExample == <<<<"bob">>, <<"example", "com">>>>
AliceAtSample == <<<<"alice">>, <<"sample", "com">>>>
TwoAts == <<<<"bob">>, <<"example">>, <<"com">>>>
InferPaths ==
  {<<"Archive", "com", "example", "bob">>,
   <<"Archive", "com", "sample", "alice">>,
   <<"Mail", "com", "example", "bob">>,
   <<"Archive", "COM", "Example", "Bob">>,
   <<"Archive", "xcom", "example", "bob">>,
   <<"com", "example", "bob">>}
InferEmails ==
  {<<>>, <<BobAtExample>>, <<AliceAtSample>>, <<TwoAts, BobAtExample>>,
   <<BobAtExample, BobAtExample>>}
InferRules == [path : InferPaths, emails : InferEmails]

\* String.prototype.endsWith on one segment
NameEndsWith(n, s) == n = s \/ (n = "xcom" /\ s = "com")

\* n.substring(0, n.length - s.length) for a segment n that ends with s
NameWithout(n, s) == CASE n = "xcom" /\ s = "com" -> "x" [] n = s -> ""

\* path.endsWith(suffix), both in lower case: the segments after the first
\* of the suffix are segments of the path, the first one ends a segment
PathEndsWith(path, suffix) ==
  /\ Len(path) >= Len(suffix)
  /\ \A k \in 2..Len(suffix) :
       path[Len(path) - Len(suffix) + k] = suffix[k]
  /\ NameEndsWith(path[Len(path) - Len(suffix) + 1], suffix[1])

\* rule.path.substring(0, rule.path.length - suffix.length)
\*   .replace(/\/$/, ''); the empty string is the list of one empty segment
RootOf(path, suffix) ==
  LET cut == Len(path) - Len(suffix)
      rest == NameWithout(LowerName(path[cut + 1]), suffix[1])
  IN IF rest # "" THEN Append(SubSeq(path, 1, cut), rest)
     ELSE IF cut = 0 THEN <<"">>
     ELSE SubSeq(path, 1, cut)

\* counts.set(root, (counts.get(root) || 0) + 1) on a Map, which keeps its
\* keys in the order of their insertion
Tally(counts, root) ==
  IF \E k \in 1..Len(counts) : counts[k].root = root
  THEN [k \in 1..Len(counts) |->
          IF counts[k].root = root
          THEN [counts[k] EXCEPT !.count = @ + 1] ELSE counts[k]]
  ELSE Append(counts, [root |-> root, count |-> 1])

\* the (rule, email) pairs in the order the two forEach visit them
RECURSIVE RulePairs(_)
RulePairs(parsedRules) ==
  IF parsedRules = <<>> THEN <<>>
  ELSE [k \in 1..Len(Head(parsedRules).emails) |->
          [path |-> Head(parsedRules).path,
           email |-> Head(parsedRules).emails[k]]]
       \o RulePairs(Tail(parsedRules))

\* the body of the forEach, comparing the path as it is written
RECURSIVE CountPairs_CaseSensitive(_, _)
CountPairs_CaseSensitive(pairs, counts) ==
  IF pairs = <<>> THEN counts
  ELSE LET suffix == emailToPath(Head(pairs).email)
           path == Head(pairs).path
       IN CountPairs_CaseSensitive(
            Tail(pairs),
            IF suffix # NoPath /\ PathEndsWith(path, Lower(suffix))
            THEN Tally(counts, RootOf(Head(pairs).path, suffix))
            ELSE counts)

\* the body of the forEach of countRootPaths
RECURSIVE CountPairs(_, _)
CountPairs(pairs, counts) ==
  IF pairs = <<>> THEN counts
  ELSE LET suffix == emailToPath(Head(pairs).email)
           path == Lower(Head(pairs).path)
       IN CountPairs(
            Tail(pairs),
            IF suffix # NoPath /\ PathEndsWith(path, Lower(suffix))
            THEN Tally(counts, RootOf(Head(pairs).path, suffix))
            ELSE counts)

\* countRootPaths comparing the path as it is written
countRootPaths_CaseSensitive(parsedRules) ==
  CountPairs_CaseSensitive(RulePairs(parsedRules), <<>>)

\* countRootPaths(parsedRules)
countRootPaths(parsedRules) == CountPairs(RulePairs(parsedRules), <<>>)

\* the loop of findMaxCount
RECURSIVE MaxFrom(_, _, _)
MaxFrom(counts, best, max) ==
  IF counts = <<>> THEN best
  ELSE IF Head(counts).count > max
       THEN MaxFrom(Tail(counts), Head(counts).root, Head(counts).count)
       ELSE MaxFrom(Tail(counts), best, max)

\* findMaxCount(counts)
findMaxCount(counts) == MaxFrom(counts, NoPath, 0)

\* inferRoot(parsedRules)
inferRoot(parsedRules) == findMaxCount(countRootPaths(parsedRules))


\* ------------------------------------------------------------------------
\* Discovery (formDiscovery.onsubmit)
\* ------------------------------------------------------------------------
\* the senders scanMessages answers with, the target roots typed into the
\* window ("", "Archive" and "Archive/", as split at '/'), and the rules
\* in the rules text area
ScannedSenders == {"x@d", "bob@d", "a@b@c", "bob@example.com"}
TargetRoots == {<<"">>, <<"Archive">>, <<"Archive", "">>}
DiscoveryTexts ==
  {JoinLines([k \in 1..Len(es) |->
                generateBlock(IMAP_BASE, es[k], <<"a b">>,
                              DEFAULT_FILTER_TYPE)]) :
     es \in SeqsUpTo({"Bob@D", "x@d"}, 0, MaxFileRules)}

\* email.split('@') and domain.split('.') on the senders
SplitAddress(email) ==
  CASE email = "x@d" -> <<<<"x">>, <<"d">>>>
    [] email = "bob@d" -> <<<<"bob">>, <<"d">>>>
    [] email = "a@b@c" -> <<<<"a">>, <<"b">>, <<"c">>>>
    [] email = "bob@example.com" -> BobAtExample

\* $('targetRoot').value.replace(/\/$/, '')
TrimSeparator(root) ==
  IF Len(root) > 1 /\ Last(root) = "" THEN SubSeq(root, 1, Len(root) - 1)
  ELSE root

\* parse(pasteInput).flatMap(r => r.emails), as a set
RuleEmails(content) ==
  UNION {{parse(content)[k].emails[n] :
            n \in 1..Len(parse(content)[k].emails)} :
         k \in 1..Len(parse(content))}

\* the proposal for one sender, or NoRule
Proposal(root, email) ==
  LET suffix == emailToPath(SplitAddress(email))
  IN IF suffix # NoPath
     THEN [email |-> email,
           path |-> IF root # <<"">> THEN root \o suffix ELSE suffix,
           selected |-> TRUE]
     ELSE NoRule

\* formDiscovery.onsubmit proposing the senders that have a rule as well
formDiscovery_NoFilter(emails, content, targetRoot) ==
  LET root == TrimSeparator(targetRoot)
      mapped == [k \in 1..Len(emails) |-> Proposal(root, emails[k])]
  IN SelectSeq(mapped, LAMBDA d : d # NoRule)

\* formDiscovery.onsubmit: state.discovered for the senders scanned
formDiscovery(emails, content, targetRoot) ==
  LET existingEmails == RuleEmails(content)
      root == TrimSeparator(targetRoot)
      fresh == SelectSeq(emails, LAMBDA e : e \notin existingEmails)
      mapped == [k \in 1..Len(fresh) |-> Proposal(root, fresh[k])]
  IN SelectSeq(mapped, LAMBDA d : d # NoRule)

\* the calls made, with the arguments they range over
\* ------------------------------------------------------------------------
\* analyze(data) as one call: the rules of the filter text, the folders
\* of the account and the merge-case option give the diff
\* ------------------------------------------------------------------------
\* the paths of the rules and of the folders that are analysed
AnalyzePaths == {<<n>> : n \in HostNames}

\* unique(arr): [...new Set(arr)], each element at its first occurrence
RECURSIVE unique(_)
unique(arr) ==
  IF arr = <<>> THEN <<>>
  ELSE LET front == unique(SubSeq(arr, 1, Len(arr) - 1))
           e == arr[Len(arr)]
       IN IF \E k \in 1..Len(front) : front[k] = e
          THEN front
          ELSE Append(front, e)

\* getUniquePaths keeping every occurrence
getUniquePaths_NoUnique(rules) == [k \in 1..Len(rules) |-> rules[k].path]

\* getUniquePaths(rules)
getUniquePaths(rules) == unique([k \in 1..Len(rules) |-> rules[k].path])

\* analyze(data), with the folders scanAccount returned
analyze(folders, rules, merge) ==
  LET existingSets == buildExistingSets(folders)
      required == getUniquePaths(rules)
      keep(path) == isMissingPath(existingSets, merge, path)
  IN [totalRules |-> Len(rules),
      totalLeafs |-> Len(required),
      missing |-> SelectSeq(required, keep)]

CallDomain ==
  [calculateType |-> Options,
   parse |-> ParseTexts,
   extractPathFromBlock |-> ParseBlocks,
   uriToPath |-> Uris,
   emailToPath |-> Addresses,
   inferRoot |-> SeqsUpTo(InferRules, 0, MaxInferRules),
   analyze |->
     [folders : {ScannedItems(F) : F \in SUBSET AnalyzePaths},
      rules : SeqsUpTo([path : AnalyzePaths], 0, MaxRules),
      mergeCase : BOOLEAN],
   formDiscovery |->
     [emails : UniqueLists(ScannedSenders, MaxDiscovered),
      pasteInput : DiscoveryTexts,
      targetRoot : TargetRoots],
   getSenders |->
     [messages : SeqsUpTo(Authors, 0, MaxMessages),
      limit : 0..MaxLimit,
      selfIdentities : SelfIdentities],
   buildFullUri |->
     [baseUri : {IMAP_BASE, MAILBOX_BASE},
      path : SeqsUpTo(PathNames, 1, MaxSegments)],
   btnApplyDefaults |-> [config : Configs, val : TypeTexts],
   btnGenRules |->
     [config : Configs, base : GenBases,
      selected : SeqsUpTo([email : GenEmails, path : GenPaths],
                          0, MaxSelected)]]

InitCalls ==
  /\ ScanIdle
  /\ RunsIdle
  /\ EngineIdle
  /\ DiffIdle
  /\ TextIdle
  /\ fn \in DOMAIN CallDomain
  /\ arg \in CallDomain[fn]
  /\ ret = <<>>
  /\ returned = FALSE

\* what is left alone by a call
CallFrame == UNCHANGED <<scanVars, runs, engineVars, stopVars, diffVars, textVars, fn, arg>>

\* calculateType(options)
CallCalculateType ==
  /\ fn = "calculateType" /\ ~returned
  /\ ret' = calculateType(arg)
  /\ returned' = TRUE
  /\ CallFrame

\* btnApplyDefaults.onclick: the text the handler leaves in pasteInput
CallApplyDefaults ==
  /\ fn = "btnApplyDefaults" /\ ~returned
  /\ ret' = IF arg.val = <<>> THEN arg.val
            ELSE updateFilterTypes(arg.val, getFilterTypeMask(arg.config))
  /\ returned' = TRUE
  /\ CallFrame

\* btnGenRules.onclick: the text the handler puts in genRulesOut
CallGenRules ==
  /\ fn = "btnGenRules" /\ ~returned
  /\ ret' = JoinLines([k \in 1..Len(arg.selected) |->
                         generateBlock(arg.base, arg.selected[k].email,
                                       arg.selected[k].path,
                                       getFilterTypeMask(arg.config))])
  /\ returned' = TRUE
  /\ CallFrame

\* parse(content)
CallParse ==
  /\ fn = "parse" /\ ~returned
  /\ ret' = parse(arg)
  /\ returned' = TRUE
  /\ CallFrame

\* extractPathFromBlock(block)
CallExtractPathFromBlock ==
  /\ fn = "extractPathFromBlock" /\ ~returned
  /\ ret' = extractPathFromBlock(arg)
  /\ returned' = TRUE
  /\ CallFrame

\* uriToPath(uri)
CallUriToPath ==
  /\ fn = "uriToPath" /\ ~returned
  /\ ret' = uriToPath(arg)
  /\ returned' = TRUE
  /\ CallFrame

\* buildFullUri(baseUri, path)
CallBuildFullUri ==
  /\ fn = "buildFullUri" /\ ~returned
  /\ ret' = buildFullUri(arg.baseUri, arg.path)
  /\ returned' = TRUE
  /\ CallFrame

\* emailToPath(email)
CallEmailToPath ==
  /\ fn = "emailToPath" /\ ~returned
  /\ ret' = emailToPath(arg)
  /\ returned' = TRUE
  /\ CallFrame

\* getSenders(folderId, limit, selfIdentities)
CallGetSenders ==
  /\ fn = "getSenders" /\ ~returned
  /\ ret' = getSenders(arg.messages, arg.limit, arg.selfIdentities)
  /\ returned' = TRUE
  /\ CallFrame

\* inferRoot(parsedRules)
CallInferRoot ==
  /\ fn = "inferRoot" /\ ~returned
  /\ ret' = inferRoot(arg)
  /\ returned' = TRUE
  /\ CallFrame

\* formDiscovery.onsubmit
CallFormDiscovery ==
  /\ fn = "formDiscovery" /\ ~returned
  /\ ret' = formDiscovery(arg.emails, arg.pasteInput, arg.targetRoot)
  /\ returned' = TRUE
  /\ CallFrame

\* analyze(data)
CallAnalyze ==
  /\ fn = "analyze" /\ ~returned
  /\ ret' = analyze(arg.folders, arg.rules, arg.mergeCase)
  /\ returned' = TRUE
  /\ CallFrame

NextCalls ==
  \/ CallAnalyze
  \/ CallFormDiscovery
  \/ CallInferRoot
  \/ CallGetSenders
  \/ CallCalculateType
  \/ CallEmailToPath
  \/ CallParse
  \/ CallExtractPathFromBlock
  \/ CallUriToPath
  \/ CallBuildFullUri
  \/ CallApplyDefaults
  \/ CallGenRules

SpecCalls == InitCalls /\ [][NextCalls]_vars

\* ------------------------------------------------------------------------
\* MailClient.scanAccount, answer by answer
\* ------------------------------------------------------------------------
\* The folder trees that are scanned: the root folders and their
\* sub-folders, one of them possibly named like the inbox
ScanNames == {"A", INBOX_FOLDER_NAME}
ScanPaths == {<<"">> \o c : c \in SeqsUpTo(ScanNames, 1, MaxDepth)}
ScanTrees ==
  {T \in SUBSET ScanPaths :
     /\ Cardinality(T) <= MaxScanFolders
     /\ \A p \in T : Len(p) = 2 \/ ParentPath(p) \in T}

\* what getSubFolders(id) lists for the folder at p
SubFolders(p) == {q \in host : ParentPath(q) = p}

\* the orders in which the host may list the folders of S
Orderings(S) ==
  {sq \in [1..Cardinality(S) -> S] :
     \A a, b \in 1..Cardinality(S) : a # b => sq[a] # sq[b]}

\* traverseFolder up to its await, for each folder of a list in turn:
\* folders.push(item), then the getSubFolders call is outstanding
PushItems(folders, subs, depth) ==
  folders \o [k \in 1..Len(subs) |-> createFolderItem(HostNode(subs[k]), depth)]
CallsFor(subs, depth) ==
  {[folder |-> subs[k], depth |-> depth] : k \in 1..Len(subs)}

InitScan ==
  /\ acct \in {"missing", "rootFolder", "folders"}
  /\ host \in ScanTrees
  /\ pc = "off"
  /\ paths = <<>>
  /\ sortedPaths = <<>>
  /\ i = 0
  /\ j = 0
  /\ folderMap = <<>>
  /\ inbox = NoFolder
  /\ scanned = {}
  /\ results = [created |-> <<>>, failed |-> <<>>]
  /\ events = <<>>
  /\ calls = <<>>
  /\ pending = NoCall
  /\ finished = <<>>
  /\ nExternal = 0
  /\ nFaults = 0
  /\ stopRequested = FALSE
  /\ stoppedAt = 0
  /\ DiffIdle
  /\ TextIdle
  /\ CallIdle
  /\ RunsIdle
  /\ denied \in {D \in SUBSET (host \cup {RootPath}) :
                   Cardinality(D) <= MaxDenied}
  /\ scanFolders = <<>>
  /\ scanLeafs = 0
  /\ outstanding = {}
  /\ scanPc = "ready"
  /\ scanResult = NoFolder

ScanFrame ==
  UNCHANGED <<acct, host, pc, paths, sortedPaths, i, j, folderMap, inbox,
              scanned, results, events, calls, pending, finished, nExternal,
              nFaults, stopVars, diffVars, textVars, callVars, runs, denied>>

\* scanAccount up to its first await: no account, no root folder, or a
\* traverseFolder call for each root
ScanStart ==
  /\ scanPc = "ready"
  /\ \E roots \in Orderings(getRootFolders(acct, host)) :
       IF acct = "missing" \/ roots = <<>>
       THEN /\ scanResult' = [folders |-> <<>>, total |-> 0, leafs |-> 0]
            /\ scanPc' = "done"
            /\ UNCHANGED <<scanFolders, outstanding>>
       ELSE /\ scanFolders' = PushItems(scanFolders, roots, 0)
            /\ outstanding' = CallsFor(roots, 0)
            /\ scanPc' = "scanning"
            /\ UNCHANGED scanResult
  /\ UNCHANGED scanLeafs
  /\ ScanFrame

\* a getSubFolders call rejects and the catch does nothing
SubFoldersRejected_NotCounted ==
  /\ scanPc = "scanning"
  /\ \E c \in outstanding :
       /\ c.folder \in denied
       /\ outstanding' = outstanding \ {c}
  /\ UNCHANGED <<scanFolders, scanLeafs, scanPc, scanResult>>
  /\ ScanFrame

\* a getSubFolders call rejects: the catch counts the folder as a leaf
SubFoldersRejected ==
  /\ scanPc = "scanning"
  /\ \E c \in outstanding :
       /\ c.folder \in denied
       /\ outstanding' = outstanding \ {c}
  /\ scanLeafs' = scanLeafs + 1
  /\ UNCHANGED <<scanFolders, scanPc, scanResult>>
  /\ ScanFrame

\* a getSubFolders call is answered: a leaf, or a traverseFolder call for
\* each sub-folder
SubFoldersAnswered ==
  /\ scanPc = "scanning"
  /\ \E c \in outstanding :
       /\ c.folder \notin denied
       /\ \E subs \in Orderings(SubFolders(c.folder)) :
            IF subs = <<>>
            THEN /\ scanLeafs' = scanLeafs + 1
                 /\ outstanding' = outstanding \ {c}
                 /\ UNCHANGED scanFolders
            ELSE /\ scanFolders' = PushItems(scanFolders, subs, c.depth + 1)
                 /\ outstanding' =
                      (outstanding \ {c}) \cup CallsFor(subs, c.depth + 1)
                 /\ UNCHANGED scanLeafs
  /\ UNCHANGED <<scanPc, scanResult>>
  /\ ScanFrame

\* every traverseFolder call has settled: scanAccount returns
ScanReturn ==
  /\ scanPc = "scanning"
  /\ outstanding = {}
  /\ scanResult' = [folders |-> scanFolders, total |-> Len(scanFolders),
                    leafs |-> scanLeafs]
  /\ scanPc' = "done"
  /\ UNCHANGED <<scanFolders, scanLeafs, outstanding>>
  /\ ScanFrame

NextScan ==
  \/ ScanStart
  \/ SubFoldersRejected
  \/ SubFoldersAnswered
  \/ ScanReturn

SpecScan == InitScan /\ [][NextScan]_vars

\* the host answers every call it was sent
SpecScanLive == SpecScan /\ WF_vars(NextScan)

\* ------------------------------------------------------------------------
\* The create-folders port handling several messages: one createFolders
\* run per message, each with its own folderMap, on one host
\* ------------------------------------------------------------------------
\* A run that has not received its message
IdleRun ==
  [pc |-> "idle", paths |-> <<>>, sortedPaths |-> <<>>, i |-> 0, j |-> 0,
   folderMap |-> <<>>, inbox |-> NoFolder,
   results |-> [created |-> <<>>, failed |-> <<>>],
   events |-> <<>>, pending |-> NoCall]

\* createFolders from where a run stands to its next await of the host, or
\* to its end: the loop over sortedPaths and, in processPath, over the
\* segments, with the catch of createFolders and the complete event of
\* the port listener
RECURSIVE Advance(_)
Advance(run) ==
  IF run.pc = "loop"
  THEN IF run.i > Len(run.sortedPaths)
       THEN [run EXCEPT !.pc = "done",
                        !.events = Post(@, [type |-> "complete",
                                            results |-> run.results])]
       ELSE Advance([run EXCEPT
                       !.events = sendProgress(@, run.i, Len(run.sortedPaths),
                                               run.sortedPaths[run.i]),
                       !.j = 1,
                       !.pc = "seg"])
  ELSE LET path == run.sortedPaths[run.i]
       IN IF run.j > Len(path)
          THEN Advance([run EXCEPT
                          !.results.created = Append(@, path),
                          !.events = sendFolderComplete(@, path),
                          !.i = @ + 1,
                          !.pc = "loop"])
          ELSE IF Lower(Prefix(path, run.j)) \in DOMAIN run.folderMap
          THEN Advance([run EXCEPT !.j = @ + 1])
          ELSE IF /\ run.j > 1
                  /\ Lower(Prefix(path, run.j - 1)) \notin DOMAIN run.folderMap
          THEN Advance([run EXCEPT
                          !.results = handleCreationError(
                                        MISSING_PARENT(
                                          Lower(Prefix(path, run.j - 1))),
                                        path, @),
                          !.i = @ + 1,
                          !.pc = "loop"])
          ELSE [run EXCEPT
                  !.pending = [parentId |-> getParentId(run.folderMap,
                                                        run.inbox, path,
                                                        run.j),
                               name |-> path[run.j]],
                  !.pc = "await"]

InitOverlap ==
  /\ ScanIdle
  /\ DiffIdle
  /\ TextIdle
  /\ CallIdle
  /\ acct \in {"missing", "rootFolder"}
  /\ host \in {{}, {<<"", "B">>}}
  /\ pc = "off"
  /\ paths = <<>>
  /\ sortedPaths = <<>>
  /\ i = 0
  /\ j = 0
  /\ folderMap = <<>>
  /\ inbox = NoFolder
  /\ scanned = {}
  /\ results = [created |-> <<>>, failed |-> <<>>]
  /\ events = <<>>
  /\ calls = <<>>
  /\ pending = NoCall
  /\ finished = <<>>
  /\ nExternal = 0
  /\ nFaults = 0
  /\ stopRequested = FALSE
  /\ stoppedAt = 0
  /\ runs = [r \in 1..MaxOverlap |-> IdleRun]

OverlapFrame ==
  UNCHANGED <<acct, pc, paths, sortedPaths, i, j, folderMap, inbox, scanned,
              results, events, calls, pending, finished, nExternal, nFaults,
              stopVars, diffVars, textVars, callVars, scanVars>>

\* port.onMessage listener: createFolders(msg, port) up to its first await
RunReceive(r) ==
  /\ runs[r].pc = "idle"
  /\ \E batch \in SeqsUpTo(TargetPaths, 1, MaxBatch) :
       runs' = [runs EXCEPT ![r] = [@ EXCEPT
                  !.paths = batch,
                  !.sortedPaths = sortPathsByDepth(batch),
                  !.pc = "scan"]]
  /\ UNCHANGED host
  /\ OverlapFrame

\* scanAccount answered a run, with an inbox-equivalent folder
RunScanDone(r) ==
  /\ runs[r].pc = "scan"
  /\ LET folders == scanAccount(acct, host)
     IN /\ folders # {}
        /\ \E first \in getRootFolders(acct, host),
              fm \in FolderMaps(folders) :
             \E ib \in findInboxFolder(folders, first) :
               runs' = [runs EXCEPT ![r] = Advance([@ EXCEPT
                          !.folderMap = fm,
                          !.inbox = ib,
                          !.i = 1,
                          !.pc = "loop"])]
  /\ UNCHANGED host
  /\ OverlapFrame

\* scanAccount answered a run with no folder: NO_INBOX is thrown and the
\* port listener posts the error event
RunScanNoInbox(r) ==
  /\ runs[r].pc = "scan"
  /\ scanAccount(acct, host) = {}
  /\ runs' = [runs EXCEPT ![r] = [@ EXCEPT
                !.events = Post(@, [type |-> "error",
                                    error |-> Message(NO_INBOX, <<>>)]),
                !.pc = "done"]]
  /\ UNCHANGED host
  /\ OverlapFrame

\* the host makes the folder a run asked for; createAndCache stores it
RunCreateOk(r) ==
  /\ runs[r].pc = "await"
  /\ LET cp == ChildPath(runs[r].pending.parentId, runs[r].pending.name)
     IN /\ cp \notin host
        /\ host' = host \cup {cp}
        /\ runs' = [runs EXCEPT ![r] = Advance([@ EXCEPT
                      !.folderMap = createAndCache(@, HostNode(cp)),
                      !.pending = NoCall,
                      !.j = @ + 1,
                      !.pc = "seg"])]
  /\ OverlapFrame

\* the host rejects the call of a run: the folder exists
RunCreateExists(r) ==
  /\ runs[r].pc = "await"
  /\ ChildPath(runs[r].pending.parentId, runs[r].pending.name) \in host
  /\ runs' = [runs EXCEPT ![r] = Advance([@ EXCEPT
                !.results = handleCreationError(
                              Message(ALREADY_EXISTS, <<>>),
                              runs[r].sortedPaths[runs[r].i], @),
                !.pending = NoCall,
                !.i = @ + 1,
                !.pc = "loop"])]
  /\ UNCHANGED host
  /\ OverlapFrame

NextOverlap ==
  \E r \in 1..MaxOverlap :
    \/ RunReceive(r)
    \/ RunScanDone(r)
    \/ RunScanNoInbox(r)
    \/ RunCreateOk(r)
    \/ RunCreateExists(r)

SpecOverlap == InitOverlap /\ [][NextOverlap]_vars

\* ------------------------------------------------------------------------
\* The folders form: analyze, create the missing folders, analyze again
\* ------------------------------------------------------------------------
\* an account folder whose name differs from a required one in letter case
LowerCaseFolder == <<"", "a">>

InitConverge ==
  /\ ScanIdle
  /\ RunsIdle
  /\ TextIdle
  /\ CallIdle
  /\ acct \in {"missing", "rootFolder", "folders"}
  /\ host \in {{}, {InboxPath}, {LowerCaseFolder}}
  /\ pc = "off"
  /\ paths = <<>>
  /\ sortedPaths = <<>>
  /\ i = 0
  /\ j = 0
  /\ folderMap = <<>>
  /\ inbox = NoFolder
  /\ scanned = {}
  /\ results = [created |-> <<>>, failed |-> <<>>]
  /\ events = <<>>
  /\ calls = <<>>
  /\ pending = NoCall
  /\ finished = <<>>
  /\ nExternal = 0
  /\ nFaults = 0
  /\ stopRequested = FALSE
  /\ stoppedAt = 0
  /\ requiredPaths \in UniqueLists(TargetPaths, MaxRequired)
  /\ existingFolders = {}
  /\ mergeCase \in BOOLEAN
  /\ missing = <<>>
  /\ diffPc = "ready"
  /\ renamed = NoFolder

\* formAnalyze.onsubmit: analyze answers with the missing paths, which are
\* kept in state.missing; submitted first, and again after the creation
FormAnalyze ==
  /\ \/ diffPc = "ready"
     \/ diffPc = "creating" /\ pc = "done"
  /\ LET existingSets == buildExistingSets(scanAccount(acct, host))
         keep(path) == isMissingPath(existingSets, mergeCase, path)
     IN missing' = SelectSeq(requiredPaths, keep)
  /\ diffPc' = IF diffPc = "ready" THEN "analyzed" ELSE "reanalyzed"
  /\ UNCHANGED <<scanVars, runs, engineVars, stopVars, requiredPaths,
                 existingFolders, mergeCase, renamed, textVars, callVars>>

\* btnCreateMissing.onclick: runCreate(state.missing) posts the create
\* message; the button is disabled when nothing is missing
CreateMissing ==
  /\ diffPc = "analyzed"
  /\ missing # <<>>
  /\ pc = "off"
  /\ paths' = missing
  /\ sortedPaths' = sortPathsByDepth(missing)
  /\ results' = [created |-> <<>>, failed |-> <<>>]
  /\ pc' = "scan"
  /\ diffPc' = "creating"
  /\ UNCHANGED <<scanVars, runs, acct, host, i, j, folderMap, inbox, scanned,
                 events, calls, pending, finished, nExternal, nFaults,
                 stopVars, requiredPaths, existingFolders, mergeCase,
                 missing, renamed, callVars, textVars>>

NextConverge ==
  \/ FormAnalyze
  \/ CreateMissing
  \/ ExternalCreate
  \/ ScanDone
  \/ ScanNoInbox
  \/ PathStart
  \/ SegmentKnown
  \/ SegmentMissingParent
  \/ SegmentCreate
  \/ CreateOk
  \/ CreateExists
  \/ CreateFault
  \/ PathDone
  \/ BatchDone

SpecConverge == InitConverge /\ [][NextConverge]_vars

\* ------------------------------------------------------------------------
\* Properties of the creation batch
\* ------------------------------------------------------------------------
Completed == pc = "done" /\ events # <<>> /\ Last(events).type = "complete"

TerminalTypes == {"complete", "error"}

\* number of positions of sq that satisfy Test
Count(sq, Test(_)) == Cardinality({k \in 1..Len(sq) : Test(sq[k])})

\* every prefix of every target path is a key of the folder index
AllPrefixesIndexed ==
  \A k \in 1..Len(sortedPaths) : \A n \in 1..Len(sortedPaths[k]) :
    Lower(Prefix(sortedPaths[k], n)) \in DOMAIN folderMap

\* a create call for a prefix comes after its parent prefix was created,
\* unless the parent was there when the tree was scanned
ParentCreatedFirst ==
  \A m \in 1..Len(calls) :
    Len(calls[m].prefix) > 1 =>
      LET parent == Lower(Prefix(calls[m].prefix, Len(calls[m].prefix) - 1))
      IN \/ parent \in scanned
         \/ \E e \in 1..(m - 1) : /\ calls[e].outcome = "created"
                                  /\ Lower(calls[e].prefix) = parent

\* C1: when a batch for paths the tree has none of ends, and the host
\* accepted every create call and nobody else touched the tree, every prefix
\* of every target path is in the folder index, and each create call for a
\* prefix came after the create call (or prior existence) of its parent.
C1_ParentBeforeChild ==
  (/\ Completed
   /\ nFaults = 0
   /\ nExternal = 0
   /\ \A k \in 1..Len(sortedPaths) : Lower(sortedPaths[k]) \notin scanned)
  => (AllPrefixesIndexed /\ ParentCreatedFirst)

\* C2: create calls are issued only for prefixes the scanned tree lacks, a
\* target path whose prefixes all existed is reported created and not
\* failed, and re-running a batch that completed with every path created
\* issues no create call at all.
C2_IdempotentRerun ==
  /\ \A m \in 1..Len(calls) : Lower(calls[m].prefix) \notin scanned
  /\ Completed =>
       \A k \in 1..Len(sortedPaths) :
         (\A n \in 1..Len(sortedPaths[k]) :
            Lower(Prefix(sortedPaths[k], n)) \in scanned)
         => /\ \E c \in 1..Len(results.created) :
                 results.created[c] = sortedPaths[k]
            /\ results.failed = <<>> \/ \A f \in 1..Len(results.failed) :
                 results.failed[f].path # sortedPaths[k]
  /\ (/\ finished # <<>>
      /\ Last(Last(finished).events).type = "complete"
      /\ Last(finished).results.failed = <<>>)
     => calls = <<>>

\* the host call awaited is being answered with `outcome`
Answered(outcome) ==
  /\ pc = "await"
  /\ Len(calls') = Len(calls)
  /\ Last(calls).outcome = "pending"
  /\ Last(calls').outcome = outcome

\* C3: when a host create call of a batch is answered with "already
\* exists", the path being processed is appended to results.created,
\* results.failed is left alone and no event is posted for it; the batch
\* still ends with the complete event.
C3_AlreadyExistsIsSuccess ==
  /\ [][Answered(ALREADY_EXISTS) =>
          /\ results'.created = Append(results.created, sortedPaths[i])
          /\ results'.failed = results.failed
          /\ events' = events]_vars
  /\ [](pc = "done" /\ (\E m \in 1..Len(calls) :
                          calls[m].outcome = ALREADY_EXISTS)
        => Last(events).type = "complete")

C3_Witness ==
  /\ Completed
  /\ \E m \in 1..Len(calls) :
       /\ calls[m].outcome = ALREADY_EXISTS
       /\ \E c \in 1..Len(results.created) :
            results.created[c] = sortedPaths[calls[m].index]
  /\ results.failed = <<>>

\* the segment at hand needs a parent prefix that is not in the index
MissingParentNow ==
  /\ pc = "seg"
  /\ j > 1
  /\ j <= Len(sortedPaths[i])
  /\ Lower(Prefix(sortedPaths[i], j)) \notin DOMAIN folderMap
  /\ Lower(Prefix(sortedPaths[i], j - 1)) \notin DOMAIN folderMap

\* the path at hand lands in results.failed with `message`, and the loop
\* goes on with the next path
FailsWith(message) ==
  /\ results'.failed =
       Append(results.failed, [path |-> sortedPaths[i], error |-> message])
  /\ results'.created = results.created
  /\ i' = i + 1
  /\ pc' = "loop"

\* C4: a path whose parent prefix is missing from the index, or whose host
\* create call is rejected with another error than already-exists, is
\* appended to results.failed with the triggering message and the loop goes
\* on; a batch that found its inbox ends with the complete event after a
\* progress event for every path of the sorted batch.
C4_PartialFailure ==
  /\ [][/\ MissingParentNow =>
             FailsWith(MISSING_PARENT(Lower(Prefix(sortedPaths[i], j - 1))))
        /\ Answered(PERMISSION_DENIED) =>
             FailsWith(Message(PERMISSION_DENIED, <<>>))]_vars
  /\ [](pc = "done" /\ inbox # NoFolder =>
          /\ Last(events).type = "complete"
          /\ \A k \in 1..Len(sortedPaths) :
               \E e \in 1..Len(events) :
                 /\ events[e].type = "progress"
                 /\ events[e].current = k)

C4_Witness ==
  /\ Completed
  /\ Len(sortedPaths) = 2
  /\ Len(results.failed) = 1
  /\ results.failed[1].path = sortedPaths[1]
  /\ results.created = <<sortedPaths[2]>>
  /\ \E m \in 1..Len(calls) : calls[m].index = 2 /\ calls[m].outcome = "created"

\* C6: when a batch ends, every path of the sorted batch has exactly one
\* progress event (index, total, path), posted before any host create call
\* for that path, the indexes run 1..total in order, and every path has one
\* completion event, whether its segments resolved or one of them failed.
C6_ProgressProtocol ==
  Completed =>
    LET progress == SelectSeq(events, LAMBDA e : e.type = "progress")
        complete == SelectSeq(events, LAMBDA e : e.type = "folderComplete")
    IN /\ Len(progress) = Len(sortedPaths)
       /\ \A k \in 1..Len(progress) :
            progress[k] = [type |-> "progress", current |-> k,
                           total |-> Len(sortedPaths), path |-> sortedPaths[k]]
       /\ \A m \in 1..Len(calls) :
            \E e \in 1..calls[m].posted :
              events[e].type = "progress" /\ events[e].current = calls[m].index
       /\ Len(complete) = Len(sortedPaths)
       /\ \A k \in 1..Len(complete) : complete[k].path = sortedPaths[k]

\* C7: a request that has been answered has exactly one terminal event,
\* complete carrying the results or error, and it is the last event; a
\* request still being handled has none; error is posted only when no
\* inbox-equivalent folder was found, and then no host create call was made.
C7_TerminalEvent ==
  /\ pc = "done" =>
       /\ events # <<>>
       /\ Last(events).type \in TerminalTypes
       /\ \A e \in 1..(Len(events) - 1) : events[e].type \notin TerminalTypes
       /\ Last(events).type = "complete" =>
            Last(events) = [type |-> "complete", results |-> results]
       /\ Last(events).type = "error" =>
            /\ Last(events).error = Message(NO_INBOX, <<>>)
            /\ inbox = NoFolder
            /\ calls = <<>>
  /\ pc \in {"scan", "loop", "seg", "await"} =>
       \A e \in 1..Len(events) : events[e].type \notin TerminalTypes

C7_Witness ==
  /\ Completed
  /\ calls # <<>>
  /\ finished # <<>>
  /\ Last(Last(finished).events).type = "error"

\* ------------------------------------------------------------------------
\* Properties of the creation batch with the stop signal
\* ------------------------------------------------------------------------
\* paths the loop of createMissingFolders has started
Started == IF pc \in {"loop", "done"} THEN i - 1 ELSE i

\* the paths recorded in results
Recorded ==
  {results.created[k] : k \in 1..Len(results.created)} \cup
  {results.failed[k].path : k \in 1..Len(results.failed)}

Elements(sq) == {sq[k] : k \in 1..Len(sq)}

\* the clean paths of a set of folders
CleanPaths(folders) == {CleanPath(f.path) : f \in folders}

\* C8: a required path is in the answer of analyze iff no existing folder
\* has exactly that clean path and (mergeCase is off or no existing folder
\* has that path in lower case), the answer keeps the order of the
\* required list; it is empty when every required path exists; and once
\* one existing folder of such an account changed its letter case the
\* answer is empty with mergeCase on and is just the renamed path with
\* mergeCase off.
C8_ReconciliationDiff ==
  diffPc = "analyzed" =>
    /\ \A p \in Elements(requiredPaths) :
         p \in Elements(missing) <=>
           /\ p \notin CleanPaths(existingFolders)
           /\ \/ ~mergeCase
              \/ \A f \in existingFolders : Lower(CleanPath(f.path)) # Lower(p)
    /\ LET reported(p) == p \in Elements(missing)
       IN missing = SelectSeq(requiredPaths, reported)
    /\ Elements(requiredPaths) \subseteq CleanPaths(existingFolders)
         => missing = <<>>
    /\ /\ renamed # NoFolder
       /\ Elements(requiredPaths) \subseteq CleanPaths(renamed.before)
       => IF mergeCase THEN missing = <<>>
          ELSE IF renamed.from \in Elements(requiredPaths)
               THEN missing = <<renamed.from>>
               ELSE missing = <<>>

\* every required path existed, one of them was renamed to another letter
\* case, and the analysis without mergeCase reports just that path
C8_Witness ==
  /\ diffPc = "analyzed"
  /\ renamed # NoFolder
  /\ Len(requiredPaths) = 2
  /\ Elements(requiredPaths) \subseteq CleanPaths(renamed.before)
  /\ ~mergeCase
  /\ missing = <<renamed.from>>

\* ------------------------------------------------------------------------
\* Properties of the rule-text sorter
\* ------------------------------------------------------------------------
\* how often a record occurs in a list
Occurrences(sq, r) == Cardinality({k \in 1..Len(sq) : sq[k] = r})

\* two lists hold the same records, each as often
SameMultiset(sa, sb) ==
  \A r \in Elements(sa) \cup Elements(sb) :
    Occurrences(sa, r) = Occurrences(sb, r)

\* C9: the rules parsed from the text sortRawRules returns are the rules
\* parsed from the text it was given, each as often: sorting drops,
\* merges and duplicates no rule, also when the last block of the text
\* ends without a line break.
C9_SortPreservesRules ==
  sortOut # NoText => SameMultiset(parse(sortOut), parse(sortIn))

\* C10: sortRawRules returns a text without a rule marker unchanged;
\* otherwise what it returns starts with the text before the first marker,
\* is as long as the text given, and is that header followed by the
\* blocks of the text in some order, each block unchanged and with
\* nothing between them.
C10_SortFrame ==
  sortOut # NoText =>
    LET firstIdx == FirstMarker(sortIn)
        header == SubSeq(sortIn, 1, firstIdx - 1)
        blocks == SplitBeforeMarkers(SubSeq(sortIn, firstIdx, Len(sortIn)))
    IN IF firstIdx = 0 THEN sortOut = sortIn
       ELSE /\ SubSeq(sortOut, 1, Len(header)) = header
            /\ Len(sortOut) = Len(sortIn)
            /\ \E f \in Permutations(1..Len(blocks)) :
                 sortOut = header \o
                           Concat([k \in 1..Len(blocks) |-> blocks[f[k]]])

\* a text with a header and two blocks came back with the blocks swapped
C10_Witness ==
  /\ sortOut # NoText
  /\ FirstMarker(sortIn) > 1
  /\ sortOut # sortIn
  /\ Len(SplitBeforeMarkers(SubSeq(sortIn, FirstMarker(sortIn),
                                   Len(sortIn)))) >= 2

\* the blocks of a text sortRawRules returned
OutputBlocks ==
  SplitBeforeMarkers(SubSeq(sortOut, FirstMarker(sortOut), Len(sortOut)))

\* a <= b for two lower-cased paths compared character by character
LexicographicLeq(a, b) ==
  LET rank(key) == CASE key = <<"a b">> -> 1
                     [] key = <<"zzzz">> -> 2
  IN rank(a) <= rank(b)

\* C11: in the text sortRawRules returns, of two blocks that both have a
\* target path the earlier one has the lower-cased path that is not the
\* greater, and no block without a target path comes before a block that
\* has one.
C11_SortOrder ==
  sortOut # NoText /\ FirstMarker(sortOut) > 0 =>
    \A k, m \in 1..Len(OutputBlocks) :
      k < m =>
        LET pathK == extractPathFromBlock(OutputBlocks[k])
            pathM == extractPathFromBlock(OutputBlocks[m])
        IN /\ pathK # NoPath /\ pathM # NoPath
                => LexicographicLeq(Lower(pathK), Lower(pathM))
           /\ ~(pathK = NoPath /\ pathM # NoPath)

\* ------------------------------------------------------------------------
\* Properties of the functions called on their own
\* ------------------------------------------------------------------------
\* the flags of calculateType and the bit each one stands for
FlagBits ==
  [newMail |-> 1, manual |-> 16, afterSending |-> 32, archiving |-> 64,
   periodic |-> 128]

\* the sum of the bits of a set of flags
RECURSIVE SumBits(_)
SumBits(flags) ==
  IF flags = {} THEN 0
  ELSE LET f == CHOOSE x \in flags : TRUE
       IN FlagBits[f] + SumBits(flags \ {f})

\* the flags set in the options
Selected(options) == {f \in DOMAIN FlagBits : options[f]}

\* the values of the type lines of a text
TypeFields(text) == {text[k].v : k \in {n \in 1..Len(text) : text[n].t = "type"}}

\* C12: calculateType returns the sum of the bits of the flags that are
\* set, and 17 when none is; it never returns 0, no flag gives 17, manual
\* alone 16, newMail with archiving 65; and no type line written by rule
\* generation or by the bulk type update is 0.
C12_TriggerMask ==
  /\ fn = "calculateType" /\ returned =>
       /\ ret = IF Selected(arg) = {} THEN 17 ELSE SumBits(Selected(arg))
       /\ ret # 0
       /\ Selected(arg) = {"manual"} => ret = 16
       /\ Selected(arg) = {"newMail", "archiving"} => ret = 65
  /\ fn \in {"btnApplyDefaults", "btnGenRules"} /\ returned =>
       0 \notin TypeFields(ret)

\* calculateType was called with no flag set and returned 17
C12_Witness ==
  /\ fn = "calculateType"
  /\ returned
  /\ Selected(arg) = {}
  /\ ret = 17

\* the blocks parse sees in a text: cut at each line that starts with name=
InputBlocks(text) == SplitAtLineMarkers(text)

\* the URI of the first move action of a block, or NoRule
MoveUri(block) ==
  LET moves == {k \in 1..Len(block) : block[k] = Tok("action", MOVE_TO_FOLDER)}
      vals(from) == {k \in from..Len(block) : block[k].t = "actionValue"}
      first == CHOOSE k \in moves : \A m \in moves : k <= m
  IN IF moves = {} THEN NoRule
     ELSE IF vals(first) = {} THEN NoRule
     ELSE block[CHOOSE k \in vals(first) : \A m \in vals(first) : k <= m].v

\* the block has a move action whose URI decodes to a path
Resolves(block) ==
  /\ MoveUri(block) # NoRule
  /\ MoveUri(block).base \in RecognizedBases
  /\ MoveUri(block).path # <<>>
  /\ \A k \in 1..Len(MoveUri(block).path) : ~Malformed(MoveUri(block).path[k])

\* C13: parse returns, in the order of the blocks of the text, one rule
\* for each block with a move action whose URI decodes to a path and none
\* for the other blocks; equal paths are kept, and the README entry gives
\* the path Projects/Client-A.
C13_ParseResult ==
  fn = "parse" /\ returned =>
    LET blocks == SelectSeq(InputBlocks(arg), Resolves)
    IN /\ Len(ret) = Len(blocks)
       /\ \A k \in 1..Len(blocks) :
            /\ ret[k] # ThrownRule
            /\ ret[k].uri = MoveUri(blocks[k])
            /\ Len(ret[k].path) = Len(ret[k].uri.path)
            /\ blocks[k] = ReadmeBlock
                 => ret[k].path = <<"Projects", "Client-A">>

\* C14: parse, extractPathFromBlock, uriToPath and emailToPath return a
\* value for every text, block, URI and address, also for a URI with a
\* malformed percent-escape: none of them raises an error.
C14_NoException ==
  /\ fn = "parse" /\ returned => ret # ThrownRules
  /\ fn \in {"extractPathFromBlock", "uriToPath", "emailToPath"} /\ returned
       => ret # URIError

\* C15: parse applied to the blocks generated for the selected senders,
\* joined by line breaks, returns one rule for each block, in order, with
\* the path the block was generated for, the lower-cased address as its
\* only email, and enabled.
C15_GenerateParseRoundTrip ==
  fn = "btnGenRules" /\ returned =>
    /\ Len(parse(ret)) = Len(arg.selected)
    /\ \A k \in 1..Len(arg.selected) :
         /\ parse(ret)[k].path = arg.selected[k].path
         /\ parse(ret)[k].emails = <<LowerName(arg.selected[k].email)>>
         /\ parse(ret)[k].enabled

\* C16: for a base URI with scheme imap or mailbox and a path of one or
\* more non-empty segments, with spaces, letters outside ASCII or percent
\* signs in them, uriToPath gives back the path buildFullUri was given.
C16_UriRoundTrip ==
  fn = "buildFullUri" /\ returned => uriToPath(ret) = arg.path

\* the URI of a path with a percent sign and a space was built, and it is
\* not the path written after the base
C16_Witness ==
  /\ fn = "buildFullUri"
  /\ returned
  /\ arg.path = <<"100%", "a b">>
  /\ ret.path # arg.path
  /\ uriToPath(ret) = arg.path

\* C17: for an address with exactly one @ emailToPath returns a path, the
\* labels of the domain in reverse order and then the local part, all in
\* lower case (Bob@Mail.Example.co.uk gives uk/co/example/mail/bob); for an
\* address with no @ or with two it returns null.
C17_EmailToPathDomain ==
  fn = "emailToPath" /\ returned =>
    IF Len(arg) = 2
    THEN /\ ret # NoPath
         /\ Len(ret) = Len(arg[2]) + 1
         /\ \A k \in 1..Len(arg[2]) :
              ret[k] = LowerName(arg[2][Len(arg[2]) + 1 - k])
         /\ ret[Len(ret)] = LowerName(DotJoin(arg[1]))
         /\ arg = <<<<"Bob">>, DomainLabels>>
              => ret = <<"uk", "co", "example", "mail", "bob">>
    ELSE ret = NoPath

\* emailToPath returned uk/co/example/mail/bob for Bob@Mail.Example.co.uk
C17_Witness ==
  /\ fn = "emailToPath"
  /\ returned
  /\ arg = <<<<"Bob">>, DomainLabels>>
  /\ ret = <<"uk", "co", "example", "mail", "bob">>

\* the messages getSenders is to scan: the first `limit`, all of them
\* when no limit is given
Scanned ==
  IF arg.limit = 0 THEN 1..Len(arg.messages)
  ELSE {k \in 1..Len(arg.messages) : k <= arg.limit}

\* the first message among the scanned ones that has address e
FirstOccurrence(e) ==
  CHOOSE k \in Scanned :
    /\ AuthorAddress(arg.messages[k]) = e
    /\ \A b \in Scanned : AuthorAddress(arg.messages[b]) = e => k <= b

\* C18: getSenders returns a list without duplicates, of addresses of the
\* first `limit` messages of the folder only, in the order in which they
\* first occur there, with every scanned address that has one @ and is
\* not the account's own, and with no address equal, whatever the case of
\* its letters, to the email of one of the account's identities.
C18_SenderDiscovery ==
  fn = "getSenders" /\ returned =>
    /\ \A a, b \in 1..Len(ret) : a # b => ret[a] # ret[b]
    /\ \A a \in 1..Len(ret) :
         \E k \in Scanned : AuthorAddress(arg.messages[k]) = ret[a]
    /\ \A a, b \in 1..Len(ret) :
         a < b => FirstOccurrence(ret[a]) < FirstOccurrence(ret[b])
    /\ \A a \in 1..Len(ret) : \A k \in 1..Len(arg.selfIdentities) :
         LowerName(ret[a]) # LowerName(arg.selfIdentities[k].email)
    /\ \A k \in Scanned :
         LET e == AuthorAddress(arg.messages[k])
         IN (/\ AtSigns(e) = 1
             /\ \A n \in 1..Len(arg.selfIdentities) :
                  e # LowerName(arg.selfIdentities[n].email))
            => \E a \in 1..Len(ret) : ret[a] = e

\* three messages were scanned with a limit of two: the second repeats
\* the sender of the first in another form, the third is from someone
\* else and beyond the limit, and only the first sender is returned
C18_Witness ==
  /\ fn = "getSenders"
  /\ returned
  /\ arg.limit = 2
  /\ arg.messages = <<[text |-> "Bob", angle |-> "Bob@D"],
                      [text |-> "bob@d", angle |-> ""],
                      [text |-> "'x@d'", angle |-> ""]>>
  /\ ret = <<"bob@d">>

\* C19: every address getSenders returns has exactly one @: an author
\* whose address has none, or more than one, adds nothing to the result.
C19_SenderAddressValidity ==
  fn = "getSenders" /\ returned =>
    \A a \in 1..Len(ret) : AtSigns(ret[a]) = 1


\* the (rule, email) pairs of the rules given to inferRoot whose path
\* ends, whatever the case of its letters, with the path of the email
MatchingPairs ==
  {k \in 1..Len(RulePairs(arg)) :
     /\ emailToPath(RulePairs(arg)[k].email) # NoPath
     /\ PathEndsWith(Lower(RulePairs(arg)[k].path),
                     emailToPath(RulePairs(arg)[k].email))}

\* the root candidate of a matching pair
Candidate(k) ==
  RootOf(RulePairs(arg)[k].path, emailToPath(RulePairs(arg)[k].email))

\* how many matching pairs have the candidate r
Votes(r) == Cardinality({k \in MatchingPairs : Candidate(k) = r})

\* C20: inferRoot returns a root candidate with the highest tally over the
\* (rule, email) pairs whose path ends, whatever the case, with the
\* reverse-domain path of the email, the candidate being the path without
\* that suffix and a trailing separator; it returns null when no pair
\* matches, and Archive for Archive/com/example/bob with bob@example.com
\* and Archive/com/sample/alice with alice@sample.com.
C20_RootInference ==
  fn = "inferRoot" /\ returned =>
    /\ (MatchingPairs = {}) <=> (ret = NoPath)
    /\ MatchingPairs # {} =>
         /\ \E k \in MatchingPairs : Candidate(k) = ret
         /\ \A k \in MatchingPairs : Votes(Candidate(k)) <= Votes(ret)
    /\ arg = <<[path |-> <<"Archive", "com", "example", "bob">>,
                emails |-> <<BobAtExample>>],
               [path |-> <<"Archive", "com", "sample", "alice">>,
                emails |-> <<AliceAtSample>>]>>
         => ret = <<"Archive">>

\* a rule under Mail with one matching address came first and a rule under
\* Archive, written in capitals, with two came second: Archive was inferred
C20_Witness ==
  /\ fn = "inferRoot"
  /\ returned
  /\ arg = <<[path |-> <<"Mail", "com", "example", "bob">>,
              emails |-> <<BobAtExample>>],
             [path |-> <<"Archive", "COM", "Example", "Bob">>,
              emails |-> <<BobAtExample, BobAtExample>>]>>
  /\ Votes(<<"Mail">>) = 1
  /\ Votes(<<"Archive">>) = 2
  /\ ret = <<"Archive">>


\* the folders a scan can reach: the roots, and each folder all of whose
\* ancestors list their sub-folders
ScanAncestors(p) ==
  {Prefix(p, n) : n \in 2..(Len(p) - 1)}
  \cup (IF acct = "rootFolder" /\ p # RootPath THEN {RootPath} ELSE {})
Reachable ==
  CASE acct = "missing" -> {}
    [] acct = "rootFolder" ->
         {RootPath} \cup {p \in host : ScanAncestors(p) \cap denied = {}}
    [] OTHER -> {p \in host : ScanAncestors(p) \cap denied = {}}

\* the distance of a folder from its root
Distance(p) ==
  IF acct = "rootFolder"
  THEN (IF p = RootPath THEN 0 ELSE Len(p) - 1)
  ELSE Len(p) - 2

\* what scanAccount is to return
ScanShape ==
  LET fs == scanResult.folders
  IN /\ \A a, b \in 1..Len(fs) : a # b => fs[a].path # fs[b].path
     /\ {fs[k].path : k \in 1..Len(fs)} = Reachable
     /\ \A k \in 1..Len(fs) : fs[k].depth = Distance(fs[k].path)
     /\ scanResult.total = Len(fs)
     /\ scanResult.leafs =
          Cardinality({p \in Reachable : p \in denied \/ SubFolders(p) = {}})

\* C21: whatever the folder tree and the order in which the outstanding
\* getSubFolders calls are answered, scanAccount returns, with each
\* reachable folder once, at a depth equal to its distance from its root,
\* with total the number of folders returned and leafs the number of
\* folders whose listing is empty or refused; a refused listing makes the
\* folder a leaf and neither fails the scan nor drops a sibling subtree.
C21_ParallelScan ==
  /\ [](scanPc = "done" => ScanShape)
  /\ <>(scanPc = "done")

\* a scan returned two root folders as leaves: A, whose listing was
\* refused although it has a sub-folder, and its sibling
C21_Witness ==
  /\ scanPc = "done"
  /\ acct = "folders"
  /\ host = {<<"", "A">>, <<"", "A", "A">>, InboxPath}
  /\ denied = {<<"", "A">>}
  /\ scanResult.total = 2
  /\ scanResult.leafs = 2


\* C22: once a host create call made by createFolders for a prefix has
\* succeeded, the index holds the created node under that prefix in lower
\* case, so that the prefix is resolved from the index from then on and
\* no second host create call is made for it in the batch.
C22_IndexUpdate ==
  \A k \in 1..Len(calls) :
    calls[k].outcome = "created" =>
      /\ Lower(calls[k].prefix) \in DOMAIN folderMap
      /\ folderMap[Lower(calls[k].prefix)].path =
           ChildPath(calls[k].parentId, calls[k].name)
      /\ \A n \in (k + 1)..Len(calls) :
           Lower(calls[n].prefix) # Lower(calls[k].prefix)


\* C23: the parent of the first segment of every target path is the
\* folder of type inbox of the account when there is one, and otherwise a
\* root folder of the account; it is a nested folder only if that folder
\* has type inbox.
C23_RootParent ==
  \A k \in 1..Len(calls) :
    Len(calls[k].prefix) = 1 =>
      IF \E p \in host : HostNode(p).type = "inbox"
      THEN HostNode(calls[k].parentId).type = "inbox"
      ELSE calls[k].parentId \in getRootFolders(acct, host)


\* the paths createFolders has attempted so far, in the order of their
\* progress events
Attempted ==
  LET progress == SelectSeq(events, LAMBDA e : e.type = "progress")
  IN [k \in 1..Len(progress) |-> progress[k].path]

\* sq lists the elements of ps by depth, those of one depth in the order
\* they have in ps
StableByDepth(sq, ps) ==
  /\ Len(sq) = Len(ps)
  /\ \A a, b \in 1..Len(sq) : a < b => Len(sq[a]) <= Len(sq[b])
  /\ \E f \in [1..Len(sq) -> 1..Len(ps)] :
       /\ \A a, b \in 1..Len(sq) : a # b => f[a] # f[b]
       /\ \A a \in 1..Len(sq) : sq[a] = ps[f[a]]
       /\ \A a, b \in 1..Len(sq) :
            a < b /\ Len(sq[a]) = Len(sq[b]) => f[a] < f[b]

\* C24: createFolders attempts the target paths in the order of the input
\* list sorted by number of segments, ascending, paths of one depth
\* keeping the order they have in the input list, and the list of the
\* caller is left as it was.
C24_DepthOrdering ==
  /\ [](pc \in {"scan", "loop", "seg", "await", "done"} =>
          /\ StableByDepth(sortedPaths, paths)
          /\ Len(Attempted) <= Len(sortedPaths)
          /\ Attempted = SubSeq(sortedPaths, 1, Len(Attempted)))
  /\ [][pc # "idle" => paths' = paths]_vars

\* a batch of B and then A, both of one segment, was attempted in that
\* order
C24_Witness ==
  /\ pc = "done"
  /\ paths = <<<<"B">>, <<"A">>>>
  /\ Attempted = <<<<"B">>, <<"A">>>>


\* C25 as stated: after a discovery scan every proposed sender has an
\* email that is in no rule parsed from the rules text, its path is
\* targetRoot + "/" + emailToPath(email) when a root is configured and
\* emailToPath(email) alone otherwise, and no sender whose emailToPath is
\* null is proposed.
C25_DiscoveryProposals_Stated ==
  fn = "formDiscovery" /\ returned =>
    \A k \in 1..Len(ret) :
      /\ ret[k].email \notin RuleEmails(arg.pasteInput)
      /\ emailToPath(SplitAddress(ret[k].email)) # NoPath
      /\ ret[k].path =
           IF arg.targetRoot # <<"">>
           THEN arg.targetRoot \o emailToPath(SplitAddress(ret[k].email))
           ELSE emailToPath(SplitAddress(ret[k].email))

\* C25, amended: the same, the root being targetRoot without a trailing
\* separator: the path is root + "/" + emailToPath(email) when that root
\* is not empty and emailToPath(email) alone otherwise.
C25_DiscoveryProposals ==
  fn = "formDiscovery" /\ returned =>
    \A k \in 1..Len(ret) :
      LET suffix == emailToPath(SplitAddress(ret[k].email))
          root == CHOOSE r \in {arg.targetRoot,
                                Prefix(arg.targetRoot,
                                       Len(arg.targetRoot) - 1)} :
                    \/ r = arg.targetRoot /\ (Len(r) = 1 \/ Last(r) # "")
                    \/ r \o <<"">> = arg.targetRoot /\ Len(r) >= 1
      IN /\ ret[k].email \notin RuleEmails(arg.pasteInput)
         /\ suffix # NoPath
         /\ ret[k].path = IF root # <<"">> THEN root \o suffix ELSE suffix

\* with the root Archive/ and a rule for Bob@D in the text, a scan that
\* found bob@d and x@d proposed x@d alone, under Archive/d/x
C25_Witness ==
  /\ fn = "formDiscovery"
  /\ returned
  /\ arg.targetRoot = <<"Archive", "">>
  /\ arg.emails = <<"bob@d", "x@d">>
  /\ RuleEmails(arg.pasteInput) = {"bob@d"}
  /\ ret = <<[email |-> "x@d", path |-> <<"Archive", "d", "x">>,
              selected |-> TRUE]>>


\* the host path of the folder reached from `parent` along the names of q
RECURSIVE Under(_, _)
Under(parent, q) ==
  IF q = <<>> THEN parent ELSE Under(ChildPath(parent, Head(q)), Tail(q))

\* the prefix q of a target path exists in the folder tree of the host:
\* among the root folders, or under the folder createFolders creates in,
\* whatever the case of its letters
ExistsOnHost(q) ==
  \E h \in host :
    \/ Lower(CleanPath(h)) = Lower(q)
    \/ inbox # NoFolder /\ Lower(h) = Lower(Under(inbox.path, q))

\* C26: when a batch ends, every prefix of every path listed in
\* results.created, the path itself included, exists in the folder tree
\* of the host, also when a host create call for one of its segments was
\* answered with already-exists.
C26_CreatedMeansComplete ==
  Completed =>
    \A k \in 1..Len(results.created) :
      \A n \in 1..Len(results.created[k]) :
        ExistsOnHost(Prefix(results.created[k], n))


\* the paths of results.failed, in their order
FailedPaths == [k \in 1..Len(results.failed) |-> results.failed[k].path]

C28_OverlappingRuns ==
  (acct # "missing" /\ \A r \in 1..MaxOverlap : runs[r].pc = "done") =>
    \A r \in 1..MaxOverlap :
      /\ Last(runs[r].events).type = "complete"
      /\ runs[r].results.failed = <<>>
      /\ \A k \in 1..Len(runs[r].paths) :
           \A n \in 1..Len(runs[r].paths[k]) :
             Under(RootPath, Prefix(runs[r].paths[k], n)) \in host


\* the first place of a path among the rules that are analysed
FirstRule(path) ==
  CHOOSE k \in 1..Len(arg.rules) :
    /\ arg.rules[k].path = path
    /\ \A n \in 1..Len(arg.rules) : arg.rules[n].path = path => k <= n

\* C30: the missing list analyze returns has no repeated path and is a
\* subsequence of the distinct rule paths in the order of their first
\* occurrence; what is missing with mergeCase on is among what is missing
\* with mergeCase off; and missing.length <= totalLeafs <= totalRules.
C30_DiffShape ==
  (fn = "analyze" /\ returned) =>
    /\ \A a, b \in 1..Len(ret.missing) :
         a # b => ret.missing[a] # ret.missing[b]
    /\ \A a \in 1..Len(ret.missing) :
         \E k \in 1..Len(arg.rules) : arg.rules[k].path = ret.missing[a]
    /\ \A a, b \in 1..Len(ret.missing) :
         a < b => FirstRule(ret.missing[a]) < FirstRule(ret.missing[b])
    /\ Elements(analyze(arg.folders, arg.rules, TRUE).missing)
         \subseteq Elements(analyze(arg.folders, arg.rules, FALSE).missing)
    /\ Len(ret.missing) <= ret.totalLeafs
    /\ ret.totalLeafs <= ret.totalRules
    /\ ret.totalRules = Len(arg.rules)
    /\ ret.totalLeafs = Cardinality({arg.rules[k].path : k \in 1..Len(arg.rules)})

\* three rules, two of them for one path; of the two distinct paths one
\* exists in another letter case, so it is missing only with mergeCase off
C30_Witness ==
  /\ fn = "analyze" /\ returned
  /\ ret.totalRules = 3
  /\ ret.totalLeafs = 2
  /\ Len(ret.missing) = 1
  /\ ~arg.mergeCase
  /\ Len(analyze(arg.folders, arg.rules, TRUE).missing) = 0


\* C29: when analyze reported missing paths, createFolders was run on just
\* that list and reported every path created and none failed, analyze with
\* the same required paths and the same mergeCase reports nothing missing,
\* with mergeCase off as with mergeCase on.
C29_AnalyzeCreateConvergence ==
  ( /\ diffPc = "reanalyzed"
    /\ Last(events).type = "complete"
    /\ results.failed = <<>>
    /\ Elements(results.created) = Elements(paths) ) =>
    missing = <<>>


====
